---- MODULE Spec2Model ----
(***************************************************************************)
(* A model of cookiecutter: the cookie store (CookieDB) with its backing   *)
(* SQLite file and in-memory mirror, the timestamp normalisation, the      *)
(* StatefulList cursor and the key handling of the terminal browser.       *)
(*                                                                         *)
(* Strings are sequences of one-character strings, so that substring       *)
(* search and the quoting of a string inside an SQL statement are          *)
(* computed and not assumed.  Indices and cursors are 0-based as in the    *)
(* code; sequence positions are 1-based, so list[i] of the code is         *)
(* items[i + 1] here.                                                      *)
(***************************************************************************)
EXTENDS Integers, Sequences, FiniteSets, TLC

VARIABLES
    cookie_dbs,       \* Vec<CookieDB>: records [path, typing, cookies]
    files,            \* the backing SQLite files: path -> sequence of rows
    last,             \* the last CookieDB call: its arguments, result and pre-state
    selection,        \* State.selection: "Profiles" | "Domains" | "Cookies"
    profiles,         \* State.profiles: StatefulList [status, items]
    current_domains,  \* State.current_domains: StatefulList [status, items]
    current_cookies,  \* State.current_cookies: StatefulList [status, items]
    search_open,      \* State.search_open
    search_field,     \* State.search_field
    search_matches,   \* State.search_matches: indices into the active list
    selected_match,   \* State.selected_match: index into search_matches
    key,              \* the key the last handler call was for, "none" at first
    pc,               \* "running" | "quit" | "panicked" (the process aborted)
    trail,            \* the search cursors before the last one and two n/N keys
    term,             \* the terminal: [raw, alt] (raw mode, alternate screen)
    build,            \* "debug" | "release": overflow checks on or off
    epoch,            \* one evaluation of get_unix_epoch: [typing, t, done, out]
    slist,            \* a StatefulList on its own: [status, items]
    walk,             \* calls made on slist: [start, prev, dir, count, panicked]
    wl,               \* one call of parse_whitelist: [text, done, out]
    run,              \* one run of main: its inputs, position and exit status
    ld,               \* one call of load_cookies with the reads it meets
    coll,             \* the build of the store collection at startup
    pair,             \* two stores and the results of comparing them
    short,            \* one call of path_short: [path, done, out]
    fmt,              \* one call of fields_as_str on a cookie
    nav               \* a State built by from_cookie_dbs, with its stores

storeVars == <<cookie_dbs, files, last>>
tuiVars   == <<selection, profiles, current_domains, current_cookies,
               search_open, search_field, search_matches, selected_match,
               key, pc, trail, term>>
epochVars == <<epoch>>
listVars  == <<slist, walk>>
viewVars  == <<fmt, nav>>
auxVars   == <<ld, coll, pair, short, fmt, nav>>
cliVars   == <<wl, run, ld, coll, pair, short, fmt, nav>>
vars == <<cookie_dbs, files, last, selection, profiles, current_domains,
          current_cookies, search_open, search_field, search_matches,
          selected_match, key, pc, trail, term, build, epoch, slist, walk,
          wl, run, ld, coll, pair, short, fmt, nav>>

----------------------------------------------------------------------------
(* Bounds of the model *)

\* rows in the backing file of a store that is called directly
MaxRows == 2
\* rows in the backing file of the first profile of the terminal browser
MaxTuiRows == 2
\* characters in a search query
MaxQuery == 1
\* characters in a whitelist file
MaxFile == 4
\* length of a StatefulList walked on its own
MaxLen == 4
\* successive next()/previous() calls counted on such a list
MaxWalk == 5
\* largest cursor followed on an empty list in a build without overflow checks
MaxCursor == 2

----------------------------------------------------------------------------
(* Strings *)

EmptyStr == <<>>
Str_a == <<"a">>
Str_b == <<"b">>
Str_ab == <<"a", "b">>
Str_x == <<"x">>
Str_y == <<"y">>
Str_v == <<"v">>
Str_host_key == <<"h", "o", "s", "t", "_", "k", "e", "y">>
Str_host == <<"h", "o", "s", "t">>
Str_name == <<"n", "a", "m", "e">>
Str_value == <<"v", "a", "l", "u", "e">>

\* Option::None of ListState::selected(): a cursor that is not set
None == -1

\* config.rs NO_SELECTION
NO_SELECTION == 9999999

\* The value `0usize - 1` wraps to when overflow checks are off.  It stands
\* for usize::MAX, which is larger than every index and every list length;
\* it is the largest integer the model checker represents.
UsizeMax == 2147483647

\* all sequences over S of length at most n
SeqsUpTo(S, n) == UNION { [1..k -> S] : k \in 0..n }

\* the characters of the model's strings, in byte order
Alphabet == <<".", "/", "_", "a", "b", "c", "e", "h", "k", "l", "m", "n",
              "o", "p", "q", "s", "t", "u", "v", "x", "y", "~">>

CharOrd(c) == CHOOSE i \in 1..Len(Alphabet) : Alphabet[i] = c

\* str::cmp: byte-wise lexicographic order, a proper prefix first
RECURSIVE StrLess(_, _)
StrLess(s, t) ==
    IF t = <<>> THEN FALSE
    ELSE IF s = <<>> THEN TRUE
    ELSE IF Head(s) = Head(t) THEN StrLess(Tail(s), Tail(t))
    ELSE CharOrd(Head(s)) < CharOrd(Head(t))

\* the strings of a set in ascending order
RECURSIVE SortedSeq(_)
SortedSeq(S) ==
    IF S = {} THEN <<>>
    ELSE LET m == CHOOSE x \in S : \A y \in S \ {x} : StrLess(x, y)
         IN  <<m>> \o SortedSeq(S \ {m})

----------------------------------------------------------------------------
(* StatefulList: state.rs.  A list is [status, items]: status is the       *)
(* selected index or None.                                                 *)

\* a - b on usize overflows when a < b: a panic where overflow checks are
\* on (a debug build), the wrapped value where they are off
USubOverflows(a, b) == a < b
USub(a, b) == IF a >= b THEN a - b ELSE (a - b) + UsizeMax + 1

\* A next() that stops at the last index
next_NoWrap(l) ==
    [l EXCEPT !.status =
        IF l.status # None
        THEN IF l.status >= USub(Len(l.items), 1) THEN l.status
             ELSE l.status + 1
        ELSE 0]

\* next() evaluates `self.items.len() - 1` whenever an index is selected
next_panics(l, b) ==
    l.status # None /\ USubOverflows(Len(l.items), 1) /\ b = "debug"

next(l) ==
    [l EXCEPT !.status =
        IF l.status # None
        THEN IF l.status >= USub(Len(l.items), 1) THEN 0 ELSE l.status + 1
        ELSE 0]

\* previous() evaluates `self.items.len() - 1` when index 0 is selected
previous_panics(l, b) ==
    l.status = 0 /\ USubOverflows(Len(l.items), 1) /\ b = "debug"

previous(l) ==
    [l EXCEPT !.status =
        IF l.status # None
        THEN IF l.status = 0 THEN USub(Len(l.items), 1) ELSE l.status - 1
        ELSE 0]

\* On an empty list, without overflow checks, next() counts upwards and
\* previous() downwards from usize::MAX without end: the model follows the
\* cursor up to MaxCursor and at usize::MAX.
Followed(l) ==
    Len(l.items) > 0 \/ l.status <= MaxCursor \/ l.status = UsizeMax

----------------------------------------------------------------------------
(* CookieDB: cookie_db.rs *)

DbTypes == {"Chrome", "Firefox"}

\* The columns of the cookie table the model keeps, by logical field:
\* <<Chrome column, Firefox column>>
COOKIE_FIELDS ==
    [Host  |-> <<Str_host_key, Str_host>>,
     Name  |-> <<Str_name, Str_name>>,
     Value |-> <<Str_value, Str_value>>]

field_idx(typing) == IF typing = "Chrome" THEN 0 ELSE 1

\* A row of the file is [Host, Name, Value]; a Cookie of the mirror is
\* [host, name, value].
Cookie(row) == [host |-> row.Host, name |-> row.Name, value |-> row.Value]

\* load_cookies: every row of the table becomes a Cookie, in row order
load_cookies(rows) == [i \in 1..Len(rows) |-> Cookie(rows[i])]

\* What the token "s" means in a statement evaluated on `row`.  The
\* statement puts the string between double quotes; SQLite reads a
\* double-quoted token as the column of that name when the table has one
\* and as a string literal otherwise.
SqlQuoted(typing, row, s) ==
    LET hit == { f \in DOMAIN COOKIE_FIELDS :
                    COOKIE_FIELDS[f][field_idx(typing) + 1] = s }
    IN  IF hit # {} THEN row[CHOOSE f \in hit : TRUE] ELSE s

\* The WHERE clause of the DELETE statement delete_from_domain formats:
\*   <host column> == "<domain>"                         (empty name)
\*   <host column> == "<domain>" AND name == "<name>"    (otherwise)
SqlWhere(typing, domain, name, row) ==
    IF name = EmptyStr
    THEN row.Host = SqlQuoted(typing, row, domain)
    ELSE /\ row.Host = SqlQuoted(typing, row, domain)
         /\ row.Name = SqlQuoted(typing, row, name)

\* conn.execute(&query): the rows left in the table
SqlDelete(rows, typing, domain, name) ==
    SelectSeq(rows, LAMBDA r : ~SqlWhere(typing, domain, name, r))

\* A retain() that forgets the host and drops every cookie of that name
RetainCookies_AnyHost(cookies, domain, name) ==
    IF name = EmptyStr
    THEN SelectSeq(cookies, LAMBDA c : c.host # domain)
    ELSE SelectSeq(cookies, LAMBDA c : c.name # name)

\* A retain() without the branch for the empty name
RetainCookies_NoEmptyName(cookies, domain, name) ==
    SelectSeq(cookies,
              LAMBDA c : IF c.host = domain THEN c.name # name ELSE TRUE)

\* The two retain() calls on the mirror
RetainCookies(cookies, domain, name) ==
    IF name = EmptyStr
    THEN SelectSeq(cookies, LAMBDA c : c.host # domain)
    ELSE SelectSeq(cookies,
                   LAMBDA c : IF c.host = domain THEN c.name # name ELSE TRUE)

\* A delete_from_domain that filters the mirror before it writes the file
delete_from_domain_MirrorFirst(typing, cookies, rows, domain, name, write_ok) ==
    IF ~write_ok
    THEN [ok |-> FALSE, cookies |-> RetainCookies(cookies, domain, name),
          rows |-> rows]
    ELSE [ok |-> TRUE,
          cookies |-> RetainCookies(cookies, domain, name),
          rows |-> SqlDelete(rows, typing, domain, name)]

\* delete_from_domain on a store with mirror `cookies` and file rows `rows`.
\* write_ok is whether Connection::open and execute succeed; on an error `?`
\* returns before the mirror is touched.
delete_from_domain(typing, cookies, rows, domain, name, write_ok) ==
    IF ~write_ok
    THEN [ok |-> FALSE, cookies |-> cookies, rows |-> rows]
    ELSE [ok |-> TRUE,
          cookies |-> RetainCookies(cookies, domain, name),
          rows |-> SqlDelete(rows, typing, domain, name)]

\* An entry of a whitelist as parse_whitelist leaves it: the host between
\* explicit double quotes
Quote(s) == <<"\"">> \o s \o <<"\"">>

\* What an entry of the whitelist means in the statement evaluated on
\* `row`: a double-quoted token is read as SqlQuoted reads it, any other
\* text is no value a host equals
SqlOperand(typing, row, entry) ==
    IF Len(entry) >= 2 /\ Head(entry) = "\"" /\ entry[Len(entry)] = "\""
    THEN <<SqlQuoted(typing, row, SubSeq(entry, 2, Len(entry) - 1))>>
    ELSE <<>>

\* The WHERE clause of the DELETE statement clean formats:
\*   <host column> NOT IN (<whitelist joined by ",">)
SqlNotIn(typing, whitelist, row) ==
    \A i \in 1..Len(whitelist) :
        <<row.Host>> # SqlOperand(typing, row, whitelist[i])

\* A clean that executes the statement whatever `apply` is
clean_AlwaysApply(typing, cookies, rows, whitelist, apply, write_ok) ==
    IF ~write_ok
    THEN [ok |-> FALSE, cookies |-> cookies, rows |-> rows]
    ELSE [ok |-> TRUE, cookies |-> cookies,
          rows |-> SelectSeq(rows,
                             LAMBDA r : ~SqlNotIn(typing, whitelist, r))]

\* clean on a store with mirror `cookies` and file rows `rows`: with apply
\* the statement is executed on the file (write_ok is whether open and
\* execute succeed), without it the statement is printed; the mirror is
\* not touched
clean(typing, cookies, rows, whitelist, apply, write_ok) ==
    IF apply
    THEN IF ~write_ok
         THEN [ok |-> FALSE, cookies |-> cookies, rows |-> rows]
         ELSE [ok |-> TRUE, cookies |-> cookies,
               rows |-> SelectSeq(rows,
                                  LAMBDA r : ~SqlNotIn(typing, whitelist, r))]
    ELSE [ok |-> TRUE, cookies |-> cookies, rows |-> rows]

\* domains(): the hosts of the mirror, sorted and deduplicated
domains(cookies) == SortedSeq({ cookies[i].host : i \in 1..Len(cookies) })

\* cookies_for_domain(): the cookies of a host, in mirror order
cookies_for_domain(cookies, domain) ==
    SelectSeq(cookies, LAMBDA c : c.host = domain)

\* cookie_for_domain(): the first cookie with this name and host, as a
\* sequence of length 1, or <<>> for Option::None
cookie_for_domain(cookies, name, domain) ==
    LET m == SelectSeq(cookies, LAMBDA c : c.host = domain /\ c.name = name)
    IN  IF m = <<>> THEN <<>> ELSE <<Head(m)>>

----------------------------------------------------------------------------
(* A store called directly: load_cookies and delete_from_domain with any   *)
(* arguments, any file content and either outcome of the write.            *)

StorePath == <<"s">>
StoreHosts == {Str_a, Str_b}
StoreNames == {Str_x, Str_value}
StoreValues == {Str_x, Str_v}
StoreRows == [Host : StoreHosts, Name : StoreNames, Value : StoreValues]

NoCall == [op |-> "none", db |-> 0, domain |-> EmptyStr, name |-> EmptyStr,
           whitelist |-> <<>>, apply |-> FALSE,
           write_ok |-> TRUE, ok |-> TRUE,
           pre_cookies |-> <<>>, pre_rows |-> <<>>]

\* trail when it is not kept, and when no n or N has been pressed: k is the
\* last key if it was n or N, before is <<selected_match, cursor>> of the
\* active level before that key, pair is the same before the key that came
\* before it when that was the other one of n and N
TrailOff == [on |-> FALSE, k |-> "none", before |-> <<>>, pair |-> <<>>]
NoTrail == [on |-> TRUE, k |-> "none", before |-> <<>>, pair |-> <<>>]

\* The terminal as the shell hands it over, and as run() sets it up with
\* enable_raw_mode and EnterAlternateScreen before the loop starts
TermCooked == [raw |-> FALSE, alt |-> FALSE]
run_setup == [raw |-> TRUE, alt |-> TRUE]

\* run() after run_ui returned Ok: disable_raw_mode, LeaveAlternateScreen
run_restore(t) == [t EXCEPT !.raw = FALSE, !.alt = FALSE]

\* Values of the variables a specification does not use
TuiIdle ==
    /\ selection = "Profiles"
    /\ profiles = [status |-> None, items |-> <<>>]
    /\ current_domains = [status |-> None, items |-> <<>>]
    /\ current_cookies = [status |-> None, items |-> <<>>]
    /\ search_open = FALSE
    /\ search_field = EmptyStr
    /\ search_matches = <<>>
    /\ selected_match = 0
    /\ key = "none"
    /\ pc = "running"
    /\ trail = TrailOff
    /\ term = TermCooked
EpochIdle == epoch = [typing |-> "Chrome", t |-> <<0, 0, 0>>, done |-> FALSE,
                      out |-> <<0, 0>>]
ListIdle ==
    /\ slist = [status |-> None, items |-> <<>>]
    /\ walk = [start |-> None, prev |-> None, dir |-> "none", count |-> 0,
               panicked |-> FALSE]
WlIdle == wl = [text |-> <<>>, done |-> FALSE, out |-> <<>>]
NoRun == [pc |-> "none", firefox |-> FALSE, subcmd |-> "help",
          profile |-> <<>>, apply |-> FALSE, whitelist |-> <<>>, i |-> 0,
          failed |-> {}, wrote |-> FALSE, exit |-> None]
NoLoad == [typing |-> "Chrome", rows |-> <<>>, open_ok |-> TRUE,
           step_err |-> 0, done |-> FALSE, status |-> "none",
           cookies |-> <<>>]
NoColl == [pc |-> "none"]
NoPair == [a |-> <<>>, b |-> <<>>, done |-> FALSE, eq |-> FALSE,
           cmp |-> "none", hash_eq |-> FALSE]
NoShort == [path |-> <<>>, done |-> FALSE, out |-> <<>>]
NoFmt == [samesite |-> 0, fields |-> <<>>, use_name |-> FALSE,
          color |-> FALSE, done |-> FALSE, status |-> "none", out |-> <<>>]
NoNav == [pc |-> "none"]
ViewIdle == fmt = NoFmt /\ nav = NoNav
AuxIdle ==
    /\ ld = NoLoad /\ coll = NoColl /\ pair = NoPair /\ short = NoShort
    /\ ViewIdle
CliIdle == WlIdle /\ run = NoRun /\ AuxIdle

StoreInit ==
    /\ \E typing \in DbTypes, rows \in SeqsUpTo(StoreRows, MaxRows) :
          /\ cookie_dbs = <<[path |-> StorePath, typing |-> typing,
                             cookies |-> <<>>]>>
          /\ files = [p \in {StorePath} |-> rows]
    /\ last = NoCall
    /\ build = "debug"
    /\ TuiIdle /\ EpochIdle /\ ListIdle /\ CliIdle

\* cookie_db.load_cookies()
StoreLoad ==
    /\ cookie_dbs' = [cookie_dbs EXCEPT
                        ![1].cookies = load_cookies(files[cookie_dbs[1].path])]
    /\ last' = [NoCall EXCEPT !.op = "load", !.db = 1,
                              !.pre_cookies = cookie_dbs[1].cookies,
                              !.pre_rows = files[cookie_dbs[1].path]]
    /\ UNCHANGED <<files, build, cliVars, tuiVars, epochVars, listVars>>

\* cookie_db.delete_from_domain(domain, name)
StoreDelete(domain, name, write_ok) ==
    LET db == cookie_dbs[1]
        r == delete_from_domain(db.typing, db.cookies, files[db.path],
                                domain, name, write_ok)
    IN  /\ cookie_dbs' = [cookie_dbs EXCEPT ![1].cookies = r.cookies]
        /\ files' = [files EXCEPT ![db.path] = r.rows]
        /\ last' = [NoCall EXCEPT !.op = "delete", !.db = 1,
                                  !.domain = domain, !.name = name,
                                  !.write_ok = write_ok, !.ok = r.ok,
                                  !.pre_cookies = db.cookies,
                                  !.pre_rows = files[db.path]]
        /\ UNCHANGED <<build, cliVars, tuiVars, epochVars, listVars>>

\* the whitelists clean is called with: empty, one host, two hosts, and a
\* host that is spelled like the host column of the Chromium variant
StoreWhitelists ==
    {<<>>, <<Quote(Str_a)>>, <<Quote(Str_a), Quote(Str_b)>>,
     <<Quote(Str_host_key)>>}

\* <<apply, write_ok>>: a dry run opens no file, so the outcome of the
\* write is an input of the calls with apply only
CleanModes == {<<FALSE, TRUE>>, <<TRUE, TRUE>>, <<TRUE, FALSE>>}

\* cookie_db.clean(whitelist, apply)
StoreClean(whitelist, apply, write_ok) ==
    LET db == cookie_dbs[1]
        r == clean(db.typing, db.cookies, files[db.path], whitelist, apply,
                   write_ok)
    IN  /\ cookie_dbs' = [cookie_dbs EXCEPT ![1].cookies = r.cookies]
        /\ files' = [files EXCEPT ![db.path] = r.rows]
        /\ last' = [NoCall EXCEPT !.op = "clean", !.db = 1,
                                  !.whitelist = whitelist, !.apply = apply,
                                  !.write_ok = write_ok, !.ok = r.ok,
                                  !.pre_cookies = db.cookies,
                                  !.pre_rows = files[db.path]]
        /\ UNCHANGED <<build, cliVars, tuiVars, epochVars, listVars>>

StoreNext ==
    \/ StoreLoad
    \/ \E domain \in StoreHosts, name \in StoreNames \cup {EmptyStr},
          write_ok \in BOOLEAN : StoreDelete(domain, name, write_ok)
    \/ \E whitelist \in StoreWhitelists, mode \in CleanModes :
          StoreClean(whitelist, mode[1], mode[2])

SpecStore == StoreInit /\ [][StoreNext]_vars

----------------------------------------------------------------------------
(* Properties of the store *)

\* the store the last call was made on
LastDb == cookie_dbs[last.db]
LastCookies == LastDb.cookies
LastRows == files[LastDb.path]
DeleteReturned == last.op = "delete"
DeleteSucceeded == last.op = "delete" /\ last.ok

\* C1: when the mirror equalled the file before a delete_from_domain call
\* that returned Ok, the mirror equals the file after it, for every domain
\* and name.
C1_MirrorEqualsFile ==
    (DeleteSucceeded /\ last.pre_cookies = load_cookies(last.pre_rows))
        => LastCookies = load_cookies(LastRows)

\* C3: after a successful delete_from_domain(d, n) with a non-empty n,
\* cookie_for_domain(n, d) is None and the mirror is the mirror of before
\* without the cookies of host d and name n: the others are all there,
\* unchanged and in the same order.
C3_NamedDeleteFrame ==
    (DeleteSucceeded /\ last.name # EmptyStr)
        => /\ cookie_for_domain(LastCookies, last.name, last.domain) = <<>>
           /\ LastCookies =
                SelectSeq(last.pre_cookies,
                          LAMBDA c : ~(c.host = last.domain
                                       /\ c.name = last.name))

\* C3 witness: a named delete that removed a cookie and left another
C3_Witness ==
    /\ DeleteSucceeded /\ last.name # EmptyStr
    /\ Len(LastCookies) < Len(last.pre_cookies)
    /\ Len(LastCookies) > 0

\* C4: after a successful delete_from_domain(d, ""), cookies_for_domain(d)
\* is empty, domains() does not contain d, and the cookies of every other
\* host are those of before.
C4_DomainDelete ==
    (DeleteSucceeded /\ last.name = EmptyStr)
        => /\ cookies_for_domain(LastCookies, last.domain) = <<>>
           /\ \A i \in 1..Len(domains(LastCookies)) :
                 domains(LastCookies)[i] # last.domain
           /\ SelectSeq(LastCookies, LAMBDA c : c.host # last.domain)
                = SelectSeq(last.pre_cookies,
                            LAMBDA c : c.host # last.domain)

\* C4 witness: a whole-domain delete that removed cookies and left others
C4_Witness ==
    /\ DeleteSucceeded /\ last.name = EmptyStr
    /\ cookies_for_domain(last.pre_cookies, last.domain) # <<>>
    /\ LastCookies # <<>>

\* C5: when the write to the file fails, delete_from_domain returns an
\* error and the mirror is what it was before the call.
C5_FailedWriteKeepsMirror ==
    (DeleteReturned /\ ~last.write_ok)
        => /\ ~last.ok
           /\ LastCookies = last.pre_cookies

\* C5 witness: a failed delete whose arguments match a cookie of the mirror
C5_Witness ==
    /\ DeleteReturned /\ ~last.write_ok
    /\ \E i \in 1..Len(LastCookies) :
          /\ LastCookies[i].host = last.domain
          /\ last.name \in {EmptyStr, LastCookies[i].name}

\* the hosts a whitelist names
Whitelisted(whitelist) ==
    { SubSeq(whitelist[i], 2, Len(whitelist[i]) - 1) : i \in 1..Len(whitelist) }

\* C17: clean(whitelist, apply = false) leaves the rows of the file and
\* the records of the mirror as they were and returns Ok, for every
\* whitelist.
C17_DryRunChangesNothing ==
    (last.op = "clean" /\ ~last.apply)
        => /\ last.ok
           /\ LastRows = last.pre_rows
           /\ LastCookies = last.pre_cookies

\* C17 witness: a dry run with the empty whitelist on a file with rows
C17_Witness ==
    /\ last.op = "clean" /\ ~last.apply /\ last.whitelist = <<>>
    /\ LastRows # <<>>

\* C18: a successful clean(whitelist, apply = true) leaves in the file the
\* rows whose host is one of the whitelisted hosts, and those only, in
\* their order; the mirror is not updated
C18_CleanKeepsWhitelisted ==
    (last.op = "clean" /\ last.apply /\ last.ok)
        => /\ LastRows =
                SelectSeq(last.pre_rows,
                          LAMBDA r : r.Host \in Whitelisted(last.whitelist))
           /\ LastCookies = last.pre_cookies

----------------------------------------------------------------------------
(* get_unix_epoch: cookie_db.rs                                            *)
(*                                                                         *)
(* The timestamps are i64 values beyond the integers of the model checker, *)
(* so a number is kept in base 1,000,000: a timestamp in microseconds is   *)
(* <<a, b, c>> = a * 10^12 + b * 10^6 + c and a number of seconds is       *)
(* <<a, b>> = a * 10^6 + b, where b and c are in 0..999999 and the sign is *)
(* carried by a alone (-1 is <<-1, 999999, 999999>>).                      *)

Million == 1000000
\* 11_644_473_600 = OffsetHi * 10^6 + OffsetLo
OffsetHi == 11644
OffsetLo == 473600

Zero3 == <<0, 0, 0>>
Zero2 == <<0, 0>>

\* s + 1 and s - 1 on seconds
Succ2(s) == IF s[2] = Million - 1 THEN <<s[1] + 1, 0>> ELSE <<s[1], s[2] + 1>>
Pred2(s) == IF s[2] = 0 THEN <<s[1] - 1, Million - 1>> ELSE <<s[1], s[2] - 1>>

\* A division that rounds towards minus infinity
TruncDivMillion_Floor(t) == <<t[1], t[2]>>

\* timestamp / 1_000_000 on i64: the quotient rounded towards zero
TruncDivMillion(t) ==
    IF t[1] < 0 /\ t[3] # 0 THEN Succ2(<<t[1], t[2]>>) ELSE <<t[1], t[2]>>

\* s - 11_644_473_600
SubOffset(s) ==
    IF s[2] >= OffsetLo THEN <<s[1] - OffsetHi, s[2] - OffsetLo>>
    ELSE <<s[1] - OffsetHi - 1, s[2] + Million - OffsetLo>>

\* A get_unix_epoch without the case for 0
get_unix_epoch_NoZeroCase(typing, timestamp) ==
    IF typing = "Firefox" THEN TruncDivMillion(timestamp)
    ELSE SubOffset(TruncDivMillion(timestamp))

get_unix_epoch(typing, timestamp) ==
    IF timestamp = Zero3 THEN Zero2
    ELSE IF typing = "Firefox" THEN TruncDivMillion(timestamp)
    ELSE SubOffset(TruncDivMillion(timestamp))

\* Stored timestamps: 0, the values around it, around one second, around
\* 1970-01-01 in the Chromium epoch, and dates of this century
Timestamps ==
    { <<a, b, c>> : a \in {-1, 0, 1700, OffsetHi, 13300},
                    b \in {0, 1, OffsetLo - 1, OffsetLo, OffsetLo + 1,
                           Million - 1},
                    c \in {0, 1, Million - 1} }

EpochInit ==
    /\ epoch \in [typing : DbTypes, t : Timestamps, done : {FALSE},
                  out : {Zero2}]
    /\ cookie_dbs = <<>> /\ files = <<>> /\ last = NoCall
    /\ build = "debug"
    /\ TuiIdle /\ ListIdle /\ CliIdle

\* the conversion of one stored timestamp, as load_cookies does for
\* creation, expiry and last_access
Normalize ==
    /\ ~epoch.done
    /\ epoch' = [epoch EXCEPT !.done = TRUE,
                              !.out = get_unix_epoch(epoch.typing, epoch.t)]
    /\ UNCHANGED <<storeVars, tuiVars, build, cliVars, listVars>>

EpochNext == Normalize

SpecEpoch == EpochInit /\ [][EpochNext]_vars

(* Properties of get_unix_epoch *)

\* x < y and x <= y on timestamps
Less3(x, y) ==
    \/ x[1] < y[1]
    \/ x[1] = y[1] /\ x[2] < y[2]
    \/ x[1] = y[1] /\ x[2] = y[2] /\ x[3] < y[3]
Leq3(x, y) == x = y \/ Less3(x, y)

\* s * 1_000_000
Micros(s) == <<s[1], s[2], 0>>

\* s + 11_644_473_600
AddOffset(s) ==
    IF s[2] + OffsetLo >= Million
    THEN <<s[1] + OffsetHi + 1, s[2] + OffsetLo - Million>>
    ELSE <<s[1] + OffsetHi, s[2] + OffsetLo>>

\* q is t / 1_000_000 in integer division: q * 10^6 is the multiple of
\* 10^6 nearest to t between 0 and t
IsQuotient(t, q) ==
    IF Leq3(Zero3, t)
    THEN Leq3(Micros(q), t) /\ Less3(t, Micros(Succ2(q)))
    ELSE Leq3(t, Micros(q)) /\ Less3(Micros(Pred2(q)), t)

\* C7 as stated: the normalized timestamp is 0 if and only if t is 0
C7_ZeroIffZero ==
    epoch.done => ((epoch.out = Zero2) <=> (epoch.t = Zero3))

\* C7 amended: 0 is normalized to 0, and a timestamp normalized to 0 is 0,
\* or a Gecko timestamp of less than a second either side of 0, or a
\* Chromium timestamp within the second that starts at 11_644_473_600 s.
C7_ZeroPreserved ==
    epoch.done =>
        /\ epoch.t = Zero3 => epoch.out = Zero2
        /\ epoch.out = Zero2 =>
              \/ epoch.t = Zero3
              \/ /\ epoch.typing = "Firefox"
                 /\ Less3(<<-1, Million - 1, 0>>, epoch.t)
                 /\ Less3(epoch.t, <<0, 1, 0>>)
              \/ /\ epoch.typing = "Chrome"
                 /\ Leq3(<<OffsetHi, OffsetLo, 0>>, epoch.t)
                 /\ Less3(epoch.t, <<OffsetHi, OffsetLo + 1, 0>>)

\* C7 witness: a Chromium 0 has been normalized, to 0
C7_Witness ==
    epoch.done /\ epoch.typing = "Chrome" /\ epoch.t = Zero3
               /\ epoch.out = Zero2

\* C8 as stated: every Chromium timestamp t is normalized to
\* (t / 1_000_000) - 11_644_473_600 and every Gecko timestamp to
\* t / 1_000_000
C8_EpochFormula ==
    epoch.done =>
        IF epoch.typing = "Chrome"
        THEN IsQuotient(epoch.t, AddOffset(epoch.out))
        ELSE IsQuotient(epoch.t, epoch.out)

\* C8 amended: every Chromium timestamp t other than 0 is normalized to
\* (t / 1_000_000) - 11_644_473_600, and 0 to 0; every Gecko timestamp is
\* normalized to t / 1_000_000.
C8_EpochFormulaNonZero ==
    epoch.done =>
        IF epoch.typing = "Chrome"
        THEN IF epoch.t = Zero3 THEN epoch.out = Zero2
             ELSE IsQuotient(epoch.t, AddOffset(epoch.out))
        ELSE IsQuotient(epoch.t, epoch.out)

\* C8 witness: a negative Chromium timestamp that is no whole number of
\* seconds has been normalized
C8_Witness ==
    epoch.done /\ epoch.typing = "Chrome" /\ epoch.t[1] < 0
               /\ epoch.t[3] # 0

----------------------------------------------------------------------------
(* A StatefulList on its own: next() and previous() called in any order on *)
(* a list of any length, from no cursor, from a cursor on an item and from *)
(* a cursor one past the end (as a deletion can leave it).  walk holds the *)
(* cursor before the last call (prev) and, for the calls made in the same  *)
(* direction since the direction last changed, their number and the cursor *)
(* they started from.                                                      *)

ListInit ==
    /\ \E n \in 0..MaxLen, c \in {None} \cup 0..MaxLen :
          /\ c <= n
          /\ slist = [status |-> c, items |-> [i \in 1..n |-> i]]
    /\ walk = [start |-> None, prev |-> None, dir |-> "none", count |-> 0,
               panicked |-> FALSE]
    /\ build \in {"debug", "release"}
    /\ cookie_dbs = <<>> /\ files = <<>> /\ last = NoCall
    /\ epoch = [typing |-> "Chrome", t |-> <<0, 0, 0>>, done |-> FALSE,
                out |-> <<0, 0>>]
    /\ TuiIdle /\ CliIdle

Walked(dir, panics) ==
    [start |-> IF walk.dir = dir THEN walk.start ELSE slist.status,
     prev |-> slist.status,
     dir |-> dir,
     count |-> IF walk.dir = dir THEN walk.count + 1 ELSE 1,
     panicked |-> panics]

ListCallable ==
    ~walk.panicked /\ walk.count < MaxWalk /\ Followed(slist)

ListNext ==
    /\ ListCallable
    /\ walk' = Walked("next", next_panics(slist, build))
    /\ slist' = IF next_panics(slist, build) THEN slist ELSE next(slist)
    /\ UNCHANGED <<storeVars, tuiVars, build, cliVars, epochVars>>

ListPrevious ==
    /\ ListCallable
    /\ walk' = Walked("previous", previous_panics(slist, build))
    /\ slist' = IF previous_panics(slist, build) THEN slist
                ELSE previous(slist)
    /\ UNCHANGED <<storeVars, tuiVars, build, cliVars, epochVars>>

ListStep == ListNext \/ ListPrevious

SpecList == ListInit /\ [][ListStep]_vars

(* Properties of StatefulList *)

OnItem(c, l) == c # None /\ c < Len(l.items)

\* C9 as stated: on a non-empty list, from any starting cursor state,
\* len(items) successive next() calls, or as many previous() calls, leave
\* the cursor where it started
C9_RoundTripAnyStart ==
    (walk.count = Len(slist.items) /\ Len(slist.items) > 0)
        => slist.status = walk.start

\* C9 amended: on a non-empty list, from a starting cursor that is on an
\* item, len(items) successive next() calls, or as many previous() calls,
\* leave the cursor where it started.
C9_RoundTripFromItem ==
    (walk.count = Len(slist.items) /\ OnItem(walk.start, slist))
        => slist.status = walk.start /\ ~walk.panicked

\* C9 witness: a list of at least two items walked once around by
\* previous()
C9_Witness ==
    /\ Len(slist.items) >= 2 /\ walk.count = Len(slist.items)
    /\ walk.dir = "previous" /\ OnItem(walk.start, slist)

\* C10: a call of next() moves the cursor from i to i + 1 and from the
\* last index to 0, a call of previous() from i to i - 1 and from 0 to the
\* last index, either selects 0 when nothing is selected, and no call
\* fails, on a list of any length
C10_StepWraps ==
    LET n == Len(slist.items)
        i == walk.prev
        j == slist.status
    IN  /\ ~walk.panicked
        /\ walk.dir # "none" /\ i = None => j = 0
        /\ walk.dir = "next" /\ OnItem(i, slist)
              => j = IF i = n - 1 THEN 0 ELSE i + 1
        /\ walk.dir = "previous" /\ OnItem(i, slist)
              => j = IF i = 0 THEN n - 1 ELSE i - 1

----------------------------------------------------------------------------
(* The terminal browser: tui.rs.  The navigation state is the record       *)
(* [selection, profiles, current_domains, current_cookies, search_open,    *)
(* search_field, search_matches, selected_match]; a key handler maps it to *)
(* the state it leaves, and ui() fills the lists for the next frame.       *)

\* str::contains: q occurs in s as a contiguous substring
Contains(s, q) ==
    \E i \in 0..(Len(s) - Len(q)) : SubSeq(s, i + 1, i + Len(q)) = q

\* str::replace: every occurrence of a non-empty `from`, left to right
RECURSIVE Replace(_, _, _)
Replace(s, from, to) ==
    IF Len(s) < Len(from) THEN s
    ELSE IF SubSeq(s, 1, Len(from)) = from
         THEN to \o Replace(SubSeq(s, Len(from) + 1, Len(s)), from, to)
         ELSE <<Head(s)>> \o Replace(Tail(s), from, to)

\* get_home(): the home directory of the model
Home == <<"/", "h">>

\* Path::parent of an absolute path to a file: the path up to its last
\* "/", and the root for a file right below the root
Parent(path) ==
    LET k == CHOOSE i \in 1..Len(path) :
                /\ path[i] = "/"
                /\ \A j \in (i + 1)..Len(path) : path[j] # "/"
    IN  IF k = 1 THEN <<"/">> ELSE SubSeq(path, 1, k - 1)

\* A path_short that leaves the home directory as it is
path_short_NoTilde(path) == IF path # <<>> /\ Head(path) = "/" THEN Parent(path) ELSE path

\* CookieDB::path_short
path_short(path) ==
    IF path # <<>> /\ Head(path) = "/"
    THEN Replace(Parent(path), Home, <<"~">>)
    ELSE path

\* State::new: one profile label per store, nothing selected
State_new(dbs) ==
    [selection |-> "Profiles",
     profiles |-> [status |-> None,
                   items |-> [i \in 1..Len(dbs) |-> path_short(dbs[i].path)]],
     current_domains |-> [status |-> None, items |-> <<>>],
     current_cookies |-> [status |-> None, items |-> <<>>],
     search_open |-> FALSE,
     search_field |-> EmptyStr,
     search_matches |-> <<>>,
     selected_match |-> 0]

\* The item under the cursor of a list, as a sequence of length 1, or <<>>
\* when no index is selected or the index is not in the list
selected_item(l) ==
    IF l.status # None /\ l.status < Len(l.items)
    THEN <<l.items[l.status + 1]>> ELSE <<>>

\* State::selected_domain and State::selected_cookie
selected_domain(st) == selected_item(st.current_domains)
selected_cookie(st) == selected_item(st.current_cookies)

\* ui(): the domain list is refilled from the store of the selected
\* profile and the cookie list from its cookies for the selected domain;
\* a list whose parent has no selection keeps its items
ui(st, dbs) ==
    IF st.profiles.status # None /\ st.profiles.status < Len(dbs)
    THEN LET cdb == dbs[st.profiles.status + 1]
             st1 == [st EXCEPT !.current_domains.items = domains(cdb.cookies)]
             d == selected_domain(st1)
         IN  IF d # <<>>
             THEN LET cs == cookies_for_domain(cdb.cookies, d[1])
                  IN  [st1 EXCEPT !.current_cookies.items =
                                     [i \in 1..Len(cs) |-> cs[i].name]]
             ELSE st1
    ELSE st

\* run_ui before its loop: the first profile is selected
run_ui_start(st) ==
    IF Len(st.profiles.items) > 0
    THEN [st EXCEPT !.profiles.status = 0] ELSE st

\* set_matches: the indices of the items that contain q, ascending
set_matches(items, q) ==
    LET hit == SelectSeq([i \in 1..Len(items) |-> i],
                         LAMBDA i : Contains(items[i], q))
    IN  [k \in 1..Len(hit) |-> hit[k] - 1]

\* A commit that records the matches and leaves the cursor where it is
search_enter_KeepCursor(st, dbs) ==
    LET q == st.search_field
        paths == [i \in 1..Len(dbs) |-> dbs[i].path]
        m == CASE st.selection = "Profiles" -> set_matches(paths, q)
               [] st.selection = "Domains" ->
                      set_matches(st.current_domains.items, q)
               [] st.selection = "Cookies" ->
                      set_matches(st.current_cookies.items, q)
    IN  [st EXCEPT !.search_open = FALSE, !.search_field = EmptyStr,
                   !.search_matches = m,
                   !.selected_match = IF Len(m) = 0 THEN @ ELSE 0]

\* handle_search_key, Enter: at the Profiles level the query is looked for
\* in the path of each store, at the other levels in the items of the list
search_enter(st, dbs) ==
    LET q == st.search_field
        paths == [i \in 1..Len(dbs) |-> dbs[i].path]
        m == CASE st.selection = "Profiles" -> set_matches(paths, q)
               [] st.selection = "Domains" ->
                      set_matches(st.current_domains.items, q)
               [] st.selection = "Cookies" ->
                      set_matches(st.current_cookies.items, q)
        st1 == [st EXCEPT !.search_open = FALSE, !.search_field = EmptyStr,
                          !.search_matches = m]
    IN  IF Len(m) = 0 THEN st1
        ELSE CASE st.selection = "Profiles" ->
                    [st1 EXCEPT !.selected_match = 0,
                                !.profiles.status = m[1]]
               [] st.selection = "Domains" ->
                    [st1 EXCEPT !.selected_match = 0,
                                !.current_domains.status = m[1]]
               [] st.selection = "Cookies" ->
                    [st1 EXCEPT !.selected_match = 0,
                                !.current_cookies.status = m[1]]

\* A Left that unsets the cursor and stays at the level
key_left_StayLevel(st) == CASE st.selection = "Profiles" -> st [] st.selection = "Domains" -> [st EXCEPT !.current_domains.status = None, !.search_matches = <<>>] [] st.selection = "Cookies" -> [st EXCEPT !.current_cookies.status = None, !.search_matches = <<>>]

\* A Left that changes the level and keeps the cursor of the level it leaves
key_left_KeepCursor(st) == CASE st.selection = "Profiles" -> st [] st.selection = "Domains" -> [st EXCEPT !.search_matches = <<>>, !.selection = "Profiles"] [] st.selection = "Cookies" -> [st EXCEPT !.search_matches = <<>>, !.selection = "Domains"]

\* handle_key, Left / h
key_left(st) ==
    CASE st.selection = "Profiles" -> st
      [] st.selection = "Domains" ->
            [st EXCEPT !.current_domains.status = None,
                       !.search_matches = <<>>,
                       !.selection = "Profiles"]
      [] st.selection = "Cookies" ->
            [st EXCEPT !.current_cookies.status = None,
                       !.search_matches = <<>>,
                       !.selection = "Domains"]

\* the list of the active level
active_list(st) ==
    CASE st.selection = "Profiles" -> st.profiles
      [] st.selection = "Domains" -> st.current_domains
      [] st.selection = "Cookies" -> st.current_cookies

with_active_list(st, l) ==
    CASE st.selection = "Profiles" -> [st EXCEPT !.profiles = l]
      [] st.selection = "Domains" -> [st EXCEPT !.current_domains = l]
      [] st.selection = "Cookies" -> [st EXCEPT !.current_cookies = l]

\* handle_key, Down / j and Up / k
key_down(st) == with_active_list(st, next(active_list(st)))
key_up(st) == with_active_list(st, previous(active_list(st)))

\* A Right that takes the matches of the level it leaves along
key_right_KeepMatches(st) == CASE st.selection = "Profiles" -> IF Len(st.current_domains.items) > 0 THEN [st EXCEPT !.current_domains.status = 0, !.selection = "Domains"] ELSE st [] st.selection = "Domains" -> IF Len(st.current_cookies.items) > 0 THEN [st EXCEPT !.current_cookies.status = 0, !.selection = "Cookies"] ELSE st [] st.selection = "Cookies" -> st

\* handle_key, Right / l
key_right(st) ==
    CASE st.selection = "Profiles" ->
            IF Len(st.current_domains.items) > 0
            THEN [st EXCEPT !.current_domains.status = 0,
                            !.search_matches = <<>>,
                            !.selected_match = NO_SELECTION,
                            !.selection = "Domains"]
            ELSE st
      [] st.selection = "Domains" ->
            IF Len(st.current_cookies.items) > 0
            THEN [st EXCEPT !.current_cookies.status = 0,
                            !.search_matches = <<>>,
                            !.selected_match = NO_SELECTION,
                            !.selection = "Cookies"]
            ELSE st
      [] st.selection = "Cookies" -> st

\* select_match_in_current_split: search_matches.get(selected_match)
\* .expect(..) panics when the index is not in search_matches
select_match_panics(st) == st.selected_match >= Len(st.search_matches)

select_match_in_current_split(st) ==
    LET list_idx == st.search_matches[st.selected_match + 1]
    IN  with_active_list(st, [active_list(st) EXCEPT !.status = list_idx])

\* An n that stops at the last match
match_forward_NoWrap(st) ==
    IF st.selected_match # Len(st.search_matches) - 1
    THEN st.selected_match + 1 ELSE st.selected_match

\* An N that stops at the first match
match_backward_NoWrap(st) ==
    IF st.selected_match # 0 THEN st.selected_match - 1 ELSE 0

\* handle_key, n and N: the new selected_match
match_forward(st) ==
    IF st.selected_match # Len(st.search_matches) - 1
    THEN st.selected_match + 1 ELSE 0
match_backward(st) ==
    IF st.selected_match # 0
    THEN st.selected_match - 1 ELSE Len(st.search_matches) - 1

\* A deletion that always goes to the first store
delete_call_FirstStore(st, dbs) == IF st.profiles.status # None /\ st.profiles.status < Len(dbs) /\ selected_domain(st) # <<>> /\ st.selection = "Domains" THEN <<[db |-> 1, domain |-> selected_domain(st)[1], name |-> EmptyStr]>> ELSE <<>>

\* delete_in_current_split: the delete_from_domain call it makes, as a
\* sequence of length 1, or <<>> when it makes none
delete_call(st, dbs) ==
    IF /\ st.profiles.status # None
       /\ st.profiles.status < Len(dbs)
       /\ selected_domain(st) # <<>>
    THEN LET call(name) == <<[db |-> st.profiles.status + 1,
                              domain |-> selected_domain(st)[1],
                              name |-> name]>>
         IN  CASE st.selection = "Domains" -> call(EmptyStr)
               [] st.selection = "Cookies" ->
                     IF selected_cookie(st) # <<>>
                     THEN call(selected_cookie(st)[1]) ELSE <<>>
               [] st.selection = "Profiles" -> <<>>
    ELSE <<>>

\* A cursor adjustment that never clears the domain cursor from the
\* Cookies level
delete_cursors_KeepDomain(st) ==
    LET dec(l) == IF l.status # 0 THEN [l EXCEPT !.status = l.status - 1]
                  ELSE l
    IN  CASE st.selection = "Domains" ->
               IF Len(st.current_domains.items) <= 1
               THEN [st EXCEPT !.current_domains.status = None]
               ELSE [st EXCEPT !.current_domains = dec(@)]
          [] st.selection = "Cookies" ->
               IF Len(st.current_cookies.items) <= 1
               THEN [st EXCEPT !.current_cookies.status = None]
               ELSE [st EXCEPT !.current_cookies = dec(@)]
          [] st.selection = "Profiles" -> st

\* delete_in_current_split after a delete_from_domain call that returned
\* Ok: the cursors are adjusted by the lengths the lists had in the last
\* frame
delete_cursors(st) ==
    LET dec(l) == IF l.status # 0 THEN [l EXCEPT !.status = l.status - 1]
                  ELSE l
    IN  CASE st.selection = "Domains" ->
               IF Len(st.current_domains.items) <= 1
               THEN [st EXCEPT !.current_domains.status = None]
               ELSE [st EXCEPT !.current_domains = dec(@)]
          [] st.selection = "Cookies" ->
               IF Len(st.current_cookies.items) <= 1
               THEN IF Len(st.current_domains.items) <= 1
                    THEN [st EXCEPT !.current_cookies.status = None,
                                    !.current_domains.status = None]
                    ELSE [st EXCEPT !.current_cookies.status = None]
               ELSE [st EXCEPT !.current_cookies = dec(@)]
          [] st.selection = "Profiles" -> st

----------------------------------------------------------------------------
(* The session: main.rs loads every store, run() builds the state and      *)
(* run_ui draws a frame, handles one key and draws the next frame.         *)

TuiPath1 == <<"/", "h", "/", "a", "/", "c">>
TuiPath2 == <<"/", "h", "/", "b", "/", "c">>
TuiHosts == {Str_a, Str_ab}
TuiNames == {Str_x, Str_y}
TuiRows == [Host : TuiHosts, Name : TuiNames, Value : {Str_v}]
TuiRows2 == <<[Host |-> Str_a, Name |-> Str_x, Value |-> Str_v]>>

\* characters typed into the search field
TypedChars == {"a", "q"}

TuiState ==
    [selection |-> selection, profiles |-> profiles,
     current_domains |-> current_domains,
     current_cookies |-> current_cookies,
     search_open |-> search_open, search_field |-> search_field,
     search_matches |-> search_matches, selected_match |-> selected_match]

\* the navigation state of the next state is st
SetState(st) ==
    /\ selection' = st.selection
    /\ profiles' = st.profiles
    /\ current_domains' = st.current_domains
    /\ current_cookies' = st.current_cookies
    /\ search_open' = st.search_open
    /\ search_field' = st.search_field
    /\ search_matches' = st.search_matches
    /\ selected_match' = st.selected_match

TuiInit ==
    /\ \/ /\ cookie_dbs = <<>>
          /\ files = <<>>
       \/ \E rows \in SeqsUpTo(TuiRows, MaxTuiRows) :
             /\ cookie_dbs =
                  <<[path |-> TuiPath1, typing |-> "Chrome",
                     cookies |-> load_cookies(rows)],
                    [path |-> TuiPath2, typing |-> "Firefox",
                     cookies |-> load_cookies(TuiRows2)]>>
             /\ files = [p \in {TuiPath1, TuiPath2} |->
                           IF p = TuiPath1 THEN rows ELSE TuiRows2]
    /\ last = NoCall
    /\ LET st == ui(run_ui_start(State_new(cookie_dbs)), cookie_dbs)
       IN  /\ selection = st.selection
           /\ profiles = st.profiles
           /\ current_domains = st.current_domains
           /\ current_cookies = st.current_cookies
           /\ search_open = st.search_open
           /\ search_field = st.search_field
           /\ search_matches = st.search_matches
           /\ selected_match = st.selected_match
    /\ key = "none"
    /\ pc = "running"
    /\ trail = TrailOff
    /\ term = run_setup
    /\ build \in {"debug", "release"}
    /\ EpochIdle /\ ListIdle /\ CliIdle

\* The state is one reached right after a search commit or an n or N key,
\* with matches
AfterMatchKey == key \in {"Enter", "n", "N"} /\ search_matches # <<>>

\* trail after key k
Trail(k) ==
    IF ~trail.on THEN trail
    ELSE IF k \in {"n", "N"} /\ AfterMatchKey
         THEN [on |-> TRUE, k |-> k,
               before |-> <<selected_match, active_list(TuiState).status>>,
               pair |-> IF trail.k \notin {"none", k} THEN trail.before
                        ELSE <<>>]
         ELSE NoTrail

\* A key whose handler returns with navigation state st and touches no
\* store; the loop then draws the next frame
Handled(k, st) ==
    /\ key' = k
    /\ pc' = pc
    /\ trail' = Trail(k)
    /\ term' = term
    /\ SetState(ui(st, cookie_dbs))
    /\ last' = NoCall
    /\ UNCHANGED <<cookie_dbs, files, build, cliVars, epochVars, listVars>>

\* A key whose handler panics: the process is gone, and nothing on the
\* way out touches the terminal
Panicked(k, st) ==
    /\ key' = k
    /\ pc' = "panicked"
    /\ trail' = Trail(k)
    /\ term' = term
    /\ SetState(st)
    /\ UNCHANGED <<build, cliVars, epochVars, listVars>>

Normal == pc = "running" /\ ~search_open
Searching == pc = "running" /\ search_open

KeyLeft == Normal /\ Handled("h", key_left(TuiState))

KeyDown ==
    /\ Normal
    /\ Followed(active_list(TuiState))
    /\ IF next_panics(active_list(TuiState), build)
       THEN Panicked("j", TuiState) /\ last' = NoCall
                                    /\ UNCHANGED <<cookie_dbs, files>>
       ELSE Handled("j", key_down(TuiState))

KeyUp ==
    /\ Normal
    /\ Followed(active_list(TuiState))
    /\ IF previous_panics(active_list(TuiState), build)
       THEN Panicked("k", TuiState) /\ last' = NoCall
                                    /\ UNCHANGED <<cookie_dbs, files>>
       ELSE Handled("k", key_up(TuiState))

KeyRight == Normal /\ Handled("l", key_right(TuiState))

KeySlash == Normal /\ Handled("/", [TuiState EXCEPT !.search_open = TRUE])

KeyMatch(k, sel) ==
    /\ Normal
    /\ IF Len(search_matches) > 0
       THEN LET st == [TuiState EXCEPT !.selected_match = sel]
            IN  IF select_match_panics(st)
                THEN Panicked(k, st) /\ last' = NoCall
                                     /\ UNCHANGED <<cookie_dbs, files>>
                ELSE Handled(k, select_match_in_current_split(st))
       ELSE Handled(k, TuiState)

KeyNextMatch == KeyMatch("n", match_forward(TuiState))
KeyPrevMatch == KeyMatch("N", match_backward(TuiState))

\* D: the search is cleared, then delete_in_current_split; write_ok is
\* whether the write to the file succeeds.  The result of
\* delete_from_domain is unwrapped with expect(), so an error is a panic.
KeyDelete ==
    /\ Normal
    /\ LET st == [TuiState EXCEPT !.search_matches = <<>>,
                                  !.selected_match = NO_SELECTION]
           call == delete_call(st, cookie_dbs)
       IN  IF call = <<>>
           THEN Handled("D", st)
           ELSE \E write_ok \in BOOLEAN :
                LET c == call[1]
                    db == cookie_dbs[c.db]
                    r == delete_from_domain(db.typing, db.cookies,
                                            files[db.path], c.domain,
                                            c.name, write_ok)
                    dbs == [cookie_dbs EXCEPT ![c.db].cookies = r.cookies]
                IN  /\ last' = [NoCall EXCEPT
                                   !.op = "delete", !.db = c.db,
                                   !.domain = c.domain, !.name = c.name,
                                   !.write_ok = write_ok, !.ok = r.ok,
                                   !.pre_cookies = db.cookies,
                                   !.pre_rows = files[db.path]]
                    /\ cookie_dbs' = dbs
                    /\ files' = [files EXCEPT ![db.path] = r.rows]
                    /\ IF r.ok
                       THEN /\ key' = "D"
                            /\ pc' = pc
                            /\ trail' = Trail("D")
                            /\ term' = term
                            /\ SetState(ui(delete_cursors(st), dbs))
                            /\ UNCHANGED <<build, cliVars, epochVars,
                                           listVars>>
                       ELSE Panicked("D", st)

\* q: run_ui returns Ok(()) and run() restores the terminal
KeyQuit ==
    /\ Normal
    /\ key' = "q"
    /\ pc' = "quit"
    /\ term' = run_restore(term)
    /\ UNCHANGED <<selection, profiles, current_domains, current_cookies,
                   search_open, search_field, search_matches,
                   selected_match, trail, storeVars, build, cliVars,
                   epochVars,
                   listVars>>

\* term.draw, poll or event::read returns an error: run_ui returns it
\* with ?, and run() unwraps the result, which panics before the lines
\* that restore the terminal
IoError ==
    /\ pc = "running"
    /\ key' = "io_error"
    /\ pc' = "panicked"
    /\ UNCHANGED <<selection, profiles, current_domains, current_cookies,
                   search_open, search_field, search_matches,
                   selected_match, trail, term, storeVars, build, cliVars,
                   epochVars, listVars>>

\* any other key in normal mode (C, Esc, Enter, ...)
KeyOther == Normal /\ Handled("other", TuiState)

SearchEnter == Searching /\ Handled("Enter", search_enter(TuiState, cookie_dbs))

\* A search mode in which h still goes one level up
search_char_LeftKey(st, c) == IF c = "h" THEN key_left(st) ELSE [st EXCEPT !.search_field = Append(@, c)]

\* handle_search_key, Char(c): search_field.push(c)
search_char(st, c) == [st EXCEPT !.search_field = Append(@, c)]

SearchChar(c) ==
    /\ Searching
    /\ Len(search_field) < MaxQuery
    /\ Handled(c, search_char(TuiState, c))

SearchBackspace ==
    /\ Searching
    /\ Handled("Backspace",
               [TuiState EXCEPT !.search_field =
                   IF @ = <<>> THEN @ ELSE SubSeq(@, 1, Len(@) - 1)])

SearchEsc ==
    /\ Searching
    /\ Handled("Esc", [TuiState EXCEPT !.search_field = EmptyStr,
                                       !.search_open = FALSE])

\* any other key while the search is open (arrows, Tab, ...)
SearchOther == Searching /\ Handled("other", TuiState)

Next ==
    \/ KeyLeft \/ KeyDown \/ KeyUp \/ KeyRight \/ KeySlash
    \/ KeyNextMatch \/ KeyPrevMatch \/ KeyDelete \/ KeyQuit \/ KeyOther
    \/ IoError
    \/ SearchEnter \/ (\E c \in TypedChars : SearchChar(c))
    \/ SearchBackspace \/ SearchEsc \/ SearchOther

Spec == TuiInit /\ [][Next]_vars

(* Properties of the terminal browser *)

\* The lists of a frame as the store gives them: the stores, the domains
\* of the selected profile's store, its cookies for the selected domain
ProfileSelected == profiles.status # None /\ profiles.status < Len(cookie_dbs)
StoreDomains ==
    IF ProfileSelected
    THEN domains(cookie_dbs[profiles.status + 1].cookies) ELSE <<>>
DomainSelected ==
    current_domains.status # None /\ current_domains.status < Len(StoreDomains)
StoreCookies ==
    IF DomainSelected
    THEN cookies_for_domain(cookie_dbs[profiles.status + 1].cookies,
                            StoreDomains[current_domains.status + 1])
    ELSE <<>>

\* at every frame of a running session, each cursor that is set is an
\* index of its level's list as the store gives it
CursorsInRange ==
    pc = "running" =>
        /\ profiles.status # None => profiles.status < Len(cookie_dbs)
        /\ current_domains.status # None
              => current_domains.status < Len(StoreDomains)
        /\ current_cookies.status # None
              => current_cookies.status < Len(StoreCookies)

\* C2: after any sequence of keys each cursor that is set is an index of
\* its level's list as the store gives it; in particular in the frame that
\* follows a D, where a deletion has shrunk the domain or the cookie list
C2_CursorsInRangeAfterDelete ==
    (key = "D" /\ last.op = "delete") => CursorsInRange

\* C6: a D whose delete_from_domain call fails leaves the session running,
\* with the selection level, the three cursors and the stores as they were
C6_FailedDeleteKeepsSession ==
    [][(key' = "D" /\ last'.op = "delete" /\ ~last'.ok)
          => /\ pc' = "running"
             /\ selection' = selection
             /\ profiles'.status = profiles.status
             /\ current_domains'.status = current_domains.status
             /\ current_cookies'.status = current_cookies.status
             /\ cookie_dbs' = cookie_dbs]_vars

----------------------------------------------------------------------------
(* Searching: a session over three stores whose first store has three      *)
(* domains and three cookies under its first domain, driven by the         *)
(* navigation and search keys only, so that no store changes.  trail is    *)
(* kept in this specification.                                             *)

\* the stores in the order cookie_dbs.sort() leaves them
SearchPath1 == <<"/", "h", "/", "a", "/", "c">>
SearchPath2 == <<"/", "h", "/", "a", "b", "/", "c">>
SearchPath3 == <<"/", "h", "/", "b", "/", "c">>
SearchRows1 ==
    <<[Host |-> Str_a, Name |-> Str_x, Value |-> Str_v],
      [Host |-> Str_a, Name |-> Str_ab, Value |-> Str_v],
      [Host |-> Str_a, Name |-> Str_b, Value |-> Str_v],
      [Host |-> Str_ab, Name |-> Str_x, Value |-> Str_v],
      [Host |-> Str_b, Name |-> Str_x, Value |-> Str_v]>>
SearchRows2 == <<[Host |-> Str_a, Name |-> Str_x, Value |-> Str_v]>>

\* characters typed into the search field of this session
SearchChars == {"a", "b", "c"}

SearchInit ==
    /\ cookie_dbs =
          <<[path |-> SearchPath1, typing |-> "Chrome",
             cookies |-> load_cookies(SearchRows1)],
            [path |-> SearchPath2, typing |-> "Firefox",
             cookies |-> load_cookies(SearchRows2)],
            [path |-> SearchPath3, typing |-> "Chrome",
             cookies |-> load_cookies(SearchRows2)]>>
    /\ files = [p \in {SearchPath1, SearchPath2, SearchPath3} |->
                  IF p = SearchPath1 THEN SearchRows1 ELSE SearchRows2]
    /\ last = NoCall
    /\ LET st == ui(run_ui_start(State_new(cookie_dbs)), cookie_dbs)
       IN  /\ selection = st.selection
           /\ profiles = st.profiles
           /\ current_domains = st.current_domains
           /\ current_cookies = st.current_cookies
           /\ search_open = st.search_open
           /\ search_field = st.search_field
           /\ search_matches = st.search_matches
           /\ selected_match = st.selected_match
    /\ key = "none"
    /\ pc = "running"
    /\ trail = NoTrail
    /\ term = run_setup
    /\ build = "debug"
    /\ EpochIdle /\ ListIdle /\ CliIdle

SearchNext ==
    \/ KeyLeft \/ KeyDown \/ KeyUp \/ KeyRight \/ KeySlash
    \/ KeyNextMatch \/ KeyPrevMatch
    \/ SearchEnter \/ (\E c \in SearchChars : SearchChar(c))
    \/ SearchBackspace \/ SearchEsc

SpecSearch == SearchInit /\ [][SearchNext]_vars

(* Properties of the search *)

\* the cursor of the active level
ActiveStatus == active_list(TuiState).status

\* C11: a commit with Enter sets the matches to the indices, ascending, of
\* the items of the active level whose displayed label (the short path of a
\* profile, the host of a domain, the name of a cookie) contains the query
C11_MatchesByLabel ==
    [][(search_open /\ key' = "Enter")
          => search_matches' =
                set_matches(active_list(TuiState).items, search_field)]_vars

\* C12: on a commit with a match, selected_match becomes 0 and the cursor
\* of the active level the first match; with no match that cursor stays;
\* either way the cursors of the other levels and the selection level stay
\* and the search is closed.
C12_CommitMovesCursor ==
    [][(search_open /\ key' = "Enter")
          => /\ search_matches' # <<>>
                   => /\ selected_match' = 0
                      /\ ActiveStatus' = search_matches'[1]
             /\ search_matches' = <<>> => ActiveStatus' = ActiveStatus
             /\ selection' = selection
             /\ selection # "Profiles" => profiles'.status = profiles.status
             /\ selection # "Domains"
                   => current_domains'.status = current_domains.status
             /\ selection # "Cookies"
                   => current_cookies'.status = current_cookies.status
             /\ ~search_open'
             /\ pc' = "running"]_vars

\* C12 witness: a commit at the Domains level whose first match is the
\* second domain has moved the cursor there
C12_Witness ==
    /\ key = "Enter" /\ selection = "Domains"
    /\ search_matches = <<1, 2>> /\ selected_match = 0
    /\ current_domains.status = 1

\* C13: with matches, n moves selected_match one forward and from the last
\* match to the first, N one backward and from the first to the last, and
\* the cursor of the active level becomes the match selected; without
\* matches n and N change nothing.
C13_MatchKeys ==
    [][(~search_open /\ key' \in {"n", "N"})
          => IF search_matches # <<>>
             THEN LET n == Len(search_matches)
                  IN  /\ search_matches' = search_matches
                      /\ selected_match' =
                            IF key' = "n" THEN (selected_match + 1) % n
                            ELSE (selected_match + n - 1) % n
                      /\ ActiveStatus' = search_matches[selected_match' + 1]
                      /\ pc' = "running"
             ELSE UNCHANGED <<selection, profiles, current_domains,
                              current_cookies, search_open, search_field,
                              search_matches, selected_match, pc>>]_vars

\* C13 witness: n has gone from the last of three matches to the first
C13_Witness ==
    /\ key = "n" /\ Len(search_matches) = 3 /\ selected_match = 0
    /\ trail.k = "n" /\ trail.before[1] = 2

\* C14: from a state right after a commit or an n or N key, with matches,
\* n then N, or N then n, brings selected_match and the cursor of the
\* active level back to what they were before the two keys.
C14_NextPrevRoundTrip ==
    trail.pair # <<>>
        => /\ pc = "running"
           /\ <<selected_match, ActiveStatus>> = trail.pair

\* C14 witness: among three matches, n then N have been pressed from the
\* second match
C14_Witness ==
    /\ trail.pair # <<>> /\ trail.k = "N"
    /\ Len(search_matches) = 3 /\ trail.pair[1] = 1

----------------------------------------------------------------------------
(* Properties of the deletion cascade *)

\* the last key was a D whose delete_from_domain call returned Ok
DeletedByKey == key = "D" /\ last.op = "delete" /\ last.ok

\* C15: a D at the Cookies level on the only cookie the store of the
\* profile holds leaves the domain cursor and the cookie cursor unset and
\* the store without records.
C15_LastCookieUnsetsCursors ==
    (DeletedByKey /\ last.name # EmptyStr /\ Len(last.pre_cookies) = 1)
        => /\ current_domains.status = None
           /\ current_cookies.status = None
           /\ LastCookies = <<>>
           /\ pc = "running"

\* C15 witness: such a D has been handled
C15_Witness ==
    /\ DeletedByKey /\ last.name # EmptyStr /\ Len(last.pre_cookies) = 1
    /\ LastCookies = <<>>

\* C16: after a successful D at the Domains level that removes the only
\* domain of the selected profile, the domain cursor is unset and the
\* active level is Profiles
C16_LastDomainBackToProfiles ==
    (DeletedByKey /\ last.name = EmptyStr
        /\ Len(domains(last.pre_cookies)) = 1)
        => /\ current_domains.status = None
           /\ selection = "Profiles"

----------------------------------------------------------------------------
(* parse_whitelist: util.rs.  The file is its text, a sequence of          *)
(* characters with "\n" ending a line.                                     *)

\* char::is_whitespace on the characters of the model
IsSpace(c) == c \in {" ", "\n"}

\* BufRead::read_line until it returns 0: the lines of the text, each with
\* its "\n" when it has one
RECURSIVE read_lines(_)
read_lines(text) ==
    IF text = <<>> THEN <<>>
    ELSE LET ends == { i \in 1..Len(text) : text[i] = "\n" }
             k == IF ends = {} THEN Len(text)
                  ELSE CHOOSE i \in ends : \A j \in ends : i <= j
         IN  <<SubSeq(text, 1, k)>> \o read_lines(SubSeq(text, k + 1, Len(text)))

\* str::trim: without the whitespace at its start and at its end
RECURSIVE trim(_)
trim(s) ==
    IF s = <<>> THEN s
    ELSE IF IsSpace(Head(s)) THEN trim(Tail(s))
    ELSE IF IsSpace(s[Len(s)]) THEN trim(SubSeq(s, 1, Len(s) - 1))
    ELSE s

\* str::starts_with("#")
starts_with_hash(s) == s # <<>> /\ Head(s) = "#"

\* A parse_whitelist that does not skip the comments
parse_whitelist_NoCommentSkip(text) ==
    LET kept == SelectSeq(read_lines(text), LAMBDA l : Len(trim(l)) > 0)
    IN  [i \in 1..Len(kept) |-> Quote(trim(kept[i]))]

\* parse_whitelist on a file that opens and reads: the entries pushed
parse_whitelist(text) ==
    LET kept == SelectSeq(read_lines(text),
                          LAMBDA l : /\ ~starts_with_hash(trim(l))
                                     /\ Len(trim(l)) > 0)
    IN  [i \in 1..Len(kept) |-> Quote(trim(kept[i]))]

WlChars == {"a", "#", " ", "\n"}

WlInit ==
    /\ wl \in [text : SeqsUpTo(WlChars, MaxFile), done : {FALSE},
                out : {<<>>}]
    /\ run = NoRun /\ AuxIdle
    /\ cookie_dbs = <<>> /\ files = <<>> /\ last = NoCall
    /\ build = "debug"
    /\ TuiIdle /\ EpochIdle /\ ListIdle

\* parse_whitelist(filepath)
ParseWhitelist ==
    /\ ~wl.done
    /\ wl' = [wl EXCEPT !.done = TRUE, !.out = parse_whitelist(wl.text)]
    /\ UNCHANGED <<storeVars, tuiVars, build, epochVars, listVars, run,
                   auxVars>>

WlNext == ParseWhitelist

SpecWhitelist == WlInit /\ [][WlNext]_vars

(* Properties of parse_whitelist *)

\* the lines of the text without their line ends
FileLines(text) ==
    LET ls == read_lines(text)
    IN  [i \in 1..Len(ls) |->
            IF ls[i][Len(ls[i])] = "\n" THEN SubSeq(ls[i], 1, Len(ls[i]) - 1)
            ELSE ls[i]]

\* a line of whitespace only, or of nothing
Blank(l) == \A i \in 1..Len(l) : IsSpace(l[i])

\* C19 as stated: the entries are, in file order, one for each line that
\* is neither blank nor begins with '#': the host of that line between
\* double quotes
C19_EntryPerLine ==
    wl.done =>
        LET kept == SelectSeq(FileLines(wl.text),
                              LAMBDA l : ~Blank(l) /\ ~starts_with_hash(l))
        IN  /\ Len(wl.out) = Len(kept)
            /\ \A i \in 1..Len(kept) :
                  wl.out[i] = <<"\"">> \o trim(kept[i]) \o <<"\"">>

\* C19 amended: the entries are, in file order, one for each line that,
\* with the whitespace around it removed, is neither empty nor begins with
\* '#': that trimmed line between double quotes.
C19_EntryPerTrimmedLine ==
    wl.done =>
        LET kept == SelectSeq(FileLines(wl.text),
                              LAMBDA l : /\ ~Blank(l)
                                         /\ ~starts_with_hash(trim(l)))
        IN  /\ Len(wl.out) = Len(kept)
            /\ \A i \in 1..Len(kept) :
                  wl.out[i] = <<"\"">> \o trim(kept[i]) \o <<"\"">>

\* C19 witness: a file with a comment line and an indented host has been
\* parsed to the one entry
C19_Witness ==
    /\ wl.done /\ wl.text = <<"#", "\n", " ", "a">>
    /\ wl.out = <<Quote(Str_a)>>

----------------------------------------------------------------------------
(* main: main.rs.  One run of the program: the process check, the          *)
(* discovery of the stores, then the subcommand.  The stores of the system *)
(* are a Chromium and a Gecko store.                                       *)

\* Config err_exit
ERR_EXIT == 1
\* the exit status of a process that panicked
PANIC_EXIT == 101

\* A process check whose answer is not looked at
process_check_Ignored(firefox) == "discover"

\* main after process_is_running("firefox"): where it goes on
process_check(firefox) == IF firefox THEN "exited" ELSE "discover"

MainPath1 == <<"/", "h", "/", "a", "/", "c">>
MainPath2 == <<"/", "h", "/", "b", "/", "c">>
MainRows1 ==
    <<[Host |-> Str_a, Name |-> Str_x, Value |-> Str_v],
      [Host |-> Str_b, Name |-> Str_x, Value |-> Str_v]>>
MainRows2 == <<[Host |-> Str_a, Name |-> Str_x, Value |-> Str_v]>>

\* cookie_dbs_from_profiles and sort(): the stores found, nothing loaded
discovered ==
    <<[path |-> MainPath1, typing |-> "Chrome", cookies |-> <<>>],
      [path |-> MainPath2, typing |-> "Firefox", cookies |-> <<>>]>>

Subcmds == {"list", "cookies", "clean", "tui", "help"}

\* --profile: none, one that is part of the first store's path, one that is
\* part of no path
Profiles == {<<>>, <<"a">>, <<"q">>}

\* the store is one the --profile option selects
profile_selects(profile, db) == profile = <<>> \/ Contains(db.path, profile)

\* A profile check that lets every selector pass
profile_check_Ignored(profile, dbs) == "dispatch"

\* main after the stores are collected: an invalid --profile is an error
profile_check(profile, dbs) ==
    IF /\ profile # <<>>
       /\ ~\E i \in 1..Len(dbs) : Contains(dbs[i].path, profile)
    THEN "exited" ELSE "dispatch"

MainInit ==
    /\ run \in [pc : {"start"}, firefox : BOOLEAN, subcmd : Subcmds,
                 profile : Profiles, apply : BOOLEAN,
                 whitelist : {<<>>, parse_whitelist(<<"a", "\n", "#">>)},
                 i : {0}, failed : {{}}, wrote : {FALSE}, exit : {None}]
    /\ cookie_dbs = <<>>
    /\ files = [p \in {MainPath1, MainPath2} |->
                  IF p = MainPath1 THEN MainRows1 ELSE MainRows2]
    /\ last = NoCall
    /\ build = "debug"
    /\ WlIdle /\ AuxIdle
    /\ TuiIdle /\ EpochIdle /\ ListIdle

MainFrame == UNCHANGED <<tuiVars, build, epochVars, listVars, wl, auxVars>>

\* process_is_running("firefox"): exit(err_exit) when it is
MainProcessCheck ==
    /\ run.pc = "start"
    /\ run' = [run EXCEPT !.pc = process_check(run.firefox),
                          !.exit = IF process_check(run.firefox) = "exited"
                                   THEN ERR_EXIT ELSE @]
    /\ UNCHANGED storeVars
    /\ MainFrame

\* the stores are collected and sorted
MainDiscover ==
    /\ run.pc = "discover"
    /\ cookie_dbs' = discovered
    /\ run' = [run EXCEPT !.pc = "profile"]
    /\ UNCHANGED <<files, last>>
    /\ MainFrame

\* an invalid --profile: exit(err_exit)
MainProfileCheck ==
    /\ run.pc = "profile"
    /\ run' = [run EXCEPT
                  !.pc = profile_check(run.profile, cookie_dbs),
                  !.exit = IF profile_check(run.profile, cookie_dbs) = "exited"
                           THEN ERR_EXIT ELSE @]
    /\ UNCHANGED storeVars
    /\ MainFrame

\* --list-profiles, --list-fields and no subcommand: output only
MainPrint ==
    /\ run.pc = "dispatch" /\ run.subcmd \in {"list", "help"}
    /\ run' = [run EXCEPT !.pc = "exited", !.exit = 0]
    /\ UNCHANGED storeVars
    /\ MainFrame

\* cookies: one turn of the loop over the stores: a store --profile does
\* not select is skipped, the others are loaded and printed; load_ok is
\* whether load_cookies returns Ok, and an error is unwrapped with expect()
MainCookies(load_ok) ==
    /\ run.pc = "dispatch" /\ run.subcmd = "cookies"
    /\ run.i < Len(cookie_dbs)
    /\ LET db == cookie_dbs[run.i + 1]
       IN  IF ~profile_selects(run.profile, db)
           THEN /\ run' = [run EXCEPT !.i = @ + 1]
                /\ UNCHANGED cookie_dbs
           ELSE IF load_ok
           THEN /\ cookie_dbs' = [cookie_dbs EXCEPT ![run.i + 1].cookies =
                                     load_cookies(files[db.path])]
                /\ run' = [run EXCEPT !.i = @ + 1]
           ELSE /\ run' = [run EXCEPT !.pc = "exited", !.exit = PANIC_EXIT,
                                      !.failed = @ \cup {run.i + 1}]
                /\ UNCHANGED cookie_dbs
    /\ UNCHANGED <<files, last>>
    /\ MainFrame

\* cookies: after the last store
MainCookiesDone ==
    /\ run.pc = "dispatch" /\ run.subcmd = "cookies"
    /\ run.i = Len(cookie_dbs)
    /\ run' = [run EXCEPT !.pc = "exited", !.exit = 0]
    /\ UNCHANGED storeVars
    /\ MainFrame

\* clean: one turn of the loop over the stores; an error of clean is
\* unwrapped with expect()
MainCleanStore(write_ok) ==
    /\ run.pc = "dispatch" /\ run.subcmd = "clean"
    /\ run.i < Len(cookie_dbs)
    /\ LET db == cookie_dbs[run.i + 1]
           r == clean(db.typing, db.cookies, files[db.path], run.whitelist,
                      run.apply, write_ok)
       IN  IF ~profile_selects(run.profile, db)
           THEN /\ run' = [run EXCEPT !.i = @ + 1]
                /\ UNCHANGED storeVars
           ELSE
           /\ files' = [files EXCEPT ![db.path] = r.rows]
           /\ cookie_dbs' = [cookie_dbs EXCEPT ![run.i + 1].cookies = r.cookies]
           /\ last' = [NoCall EXCEPT !.op = "clean", !.db = run.i + 1,
                                     !.whitelist = run.whitelist,
                                     !.apply = run.apply,
                                     !.write_ok = write_ok, !.ok = r.ok,
                                     !.pre_cookies = db.cookies,
                                     !.pre_rows = files[db.path]]
           /\ run' = IF r.ok
                     THEN [run EXCEPT !.i = @ + 1, !.wrote = @ \/ run.apply]
                     ELSE [run EXCEPT !.pc = "exited", !.exit = PANIC_EXIT]
    /\ MainFrame

\* clean: after the last store
MainCleanDone ==
    /\ run.pc = "dispatch" /\ run.subcmd = "clean"
    /\ run.i = Len(cookie_dbs)
    /\ run' = [run EXCEPT !.pc = "exited", !.exit = 0]
    /\ UNCHANGED storeVars
    /\ MainFrame

\* tui: every store is loaded, each result unwrapped with expect(), and
\* run() takes over; f is the first store whose load_cookies returns an
\* error, 0 when there is none
MainTui(f) ==
    /\ run.pc = "dispatch" /\ run.subcmd = "tui"
    /\ f \in 0..Len(cookie_dbs)
    /\ cookie_dbs' = [i \in 1..Len(cookie_dbs) |->
                        IF f = 0 \/ i < f
                        THEN [cookie_dbs[i] EXCEPT
                                !.cookies =
                                    load_cookies(files[cookie_dbs[i].path])]
                        ELSE cookie_dbs[i]]
    /\ run' = IF f = 0 THEN [run EXCEPT !.pc = "tui"]
              ELSE [run EXCEPT !.pc = "exited", !.exit = PANIC_EXIT,
                               !.failed = @ \cup {f}]
    /\ UNCHANGED <<files, last>>
    /\ MainFrame

\* a D of the session: delete_in_current_split calls delete_from_domain
\* on the store of the selected profile; an error is unwrapped with
\* expect()
MainTuiDelete(i, domain, name, write_ok) ==
    /\ run.pc = "tui"
    /\ i \in 1..Len(cookie_dbs)
    /\ cookies_for_domain(cookie_dbs[i].cookies, domain) # <<>>
    /\ LET db == cookie_dbs[i]
           r == delete_from_domain(db.typing, db.cookies, files[db.path],
                                   domain, name, write_ok)
       IN  /\ files' = [files EXCEPT ![db.path] = r.rows]
           /\ cookie_dbs' = [cookie_dbs EXCEPT ![i].cookies = r.cookies]
           /\ last' = [NoCall EXCEPT !.op = "delete", !.db = i,
                                     !.domain = domain, !.name = name,
                                     !.write_ok = write_ok, !.ok = r.ok,
                                     !.pre_cookies = db.cookies,
                                     !.pre_rows = files[db.path]]
           /\ run' = IF r.ok THEN [run EXCEPT !.wrote = TRUE]
                     ELSE [run EXCEPT !.pc = "exited", !.exit = PANIC_EXIT]
    /\ MainFrame

\* q in the session
MainTuiQuit ==
    /\ run.pc = "tui"
    /\ run' = [run EXCEPT !.pc = "exited", !.exit = 0]
    /\ UNCHANGED storeVars
    /\ MainFrame

MainNext ==
    \/ MainProcessCheck \/ MainDiscover \/ MainProfileCheck \/ MainPrint
    \/ (\E load_ok \in BOOLEAN : MainCookies(load_ok))
    \/ MainCookiesDone
    \/ (\E write_ok \in BOOLEAN : MainCleanStore(write_ok))
    \/ MainCleanDone
    \/ (\E f \in 0..2 : MainTui(f))
    \/ (\E i \in 1..2, domain \in {Str_a, Str_b}, name \in {EmptyStr, Str_x},
           write_ok \in BOOLEAN : MainTuiDelete(i, domain, name, write_ok))
    \/ MainTuiQuit

SpecMain == MainInit /\ [][MainNext]_vars

(* Properties of main *)

\* C20: in a run where the process check reports the browser running, the
\* program exits with a status other than 0 before any store is found,
\* loaded or written: no clean and no deletion is performed.
C20_RunningBrowserNoWrite ==
    (run.pc # "none" /\ run.firefox)
        => /\ run.pc \in {"start", "exited"}
           /\ run.pc = "exited" => run.exit # 0 /\ run.exit # None
           /\ ~run.wrote
           /\ last = NoCall
           /\ files = [p \in {MainPath1, MainPath2} |->
                         IF p = MainPath1 THEN MainRows1 ELSE MainRows2]

\* C20 witness: a clean with apply has exited at the process check
C20_Witness ==
    /\ run.firefox /\ run.pc = "exited"
    /\ run.subcmd = "clean" /\ run.apply

\* the files as the run found them
MainFiles ==
    [p \in {MainPath1, MainPath2} |->
        IF p = MainPath1 THEN MainRows1 ELSE MainRows2]

\* --profile is given and part of no store path
NoStoreMatches ==
    /\ run.profile # <<>>
    /\ \A i \in 1..Len(discovered) :
          ~Contains(discovered[i].path, run.profile)

C29_LoadFailureIsolated ==
    run.failed # {}
        => /\ run.exit # PANIC_EXIT
           /\ run.pc \in {"exited", "tui"}
                 => \A i \in 1..Len(cookie_dbs) :
                       (i \notin run.failed
                            /\ (run.subcmd = "tui"
                                 \/ profile_selects(run.profile,
                                                    cookie_dbs[i])))
                         => cookie_dbs[i].cookies =
                               load_cookies(files[cookie_dbs[i].path])

\* C22: whenever the terminal browser has ended, by q, by an I/O error of
\* drawing or polling, or by a failed deletion, raw mode is off and the
\* alternate screen is left
C22_TerminalRestored ==
    pc \in {"quit", "panicked"} => ~term.raw /\ ~term.alt

----------------------------------------------------------------------------
(* Properties of Right / l *)

\* C30: after any sequence of keys, l moves from Profiles to Domains only
\* if the store of the selected profile has a domain, and from Domains to
\* Cookies only if the store has a cookie for the selected domain; when it
\* moves the cursor of the new level is 0, otherwise the level and the
\* cursors stay; l at the Cookies level changes nothing
C30_RightNeedsItems ==
    [][(~search_open /\ key' = "l")
          => LET stay == /\ selection' = selection
                         /\ profiles'.status = profiles.status
                         /\ current_domains'.status = current_domains.status
                         /\ current_cookies'.status = current_cookies.status
             IN  CASE selection = "Profiles" ->
                        IF Len(StoreDomains) > 0
                        THEN /\ selection' = "Domains"
                             /\ current_domains'.status = 0
                        ELSE stay
                   [] selection = "Domains" ->
                        IF Len(StoreCookies) > 0
                        THEN /\ selection' = "Cookies"
                             /\ current_cookies'.status = 0
                        ELSE stay
                   [] selection = "Cookies" -> stay]_vars

----------------------------------------------------------------------------
(* load_cookies on a file whose reads can fail *)

\* rows in the cookie table of a store that is loaded read by read
MaxLoadRows == 2

\* A row as the SELECT of load_cookies meets it: typed is whether its ten
\* required columns hold values of the types row.get() asks for, Enc the
\* bytes of the encrypted_value column and enc_ok whether that column
\* reads as a blob
LoadRows == [Host : {Str_a}, Name : {Str_x, Str_y}, typed : BOOLEAN,
             Enc : {<<>>, <<"e">>}, enc_ok : BOOLEAN]

\* the eleventh expression of the SELECT
encrypted_field(typing) ==
    IF typing = "Chrome" THEN "encrypted_value" ELSE "NULL"

\* The closure of query_map on a row whose required columns unwrap:
\* encrypted_value is row.get(10).unwrap_or(vec![]), and a NULL does not
\* read as a blob
row_to_cookie(typing, row) ==
    [host |-> row.Host, name |-> row.Name,
     encrypted_value |-> IF encrypted_field(typing) # "NULL" /\ row.enc_ok
                         THEN row.Enc ELSE <<>>]

\* The items results_iter yields as Ok: the step for row step_err returns
\* an error (0: no step does), the iterator yields that Err and ends
rows_stepped(rows, step_err) ==
    IF step_err = 0 THEN rows ELSE SubSeq(rows, 1, step_err - 1)

\* load_cookies(): open and prepare return their error with ?, a required
\* column that does not unwrap panics inside the closure, and
\* filter_map(|r| r.ok()) keeps the Ok items
load_cookies_reads(typing, rows, open_ok, step_err) ==
    LET seen == rows_stepped(rows, step_err)
    IN  IF ~open_ok THEN [status |-> "err", cookies |-> <<>>]
        ELSE IF \E i \in 1..Len(seen) : ~seen[i].typed
        THEN [status |-> "panic", cookies |-> <<>>]
        ELSE [status |-> "ok",
              cookies |-> [i \in 1..Len(seen) |->
                              row_to_cookie(typing, seen[i])]]

LoadInit ==
    /\ ld \in [typing : DbTypes, rows : SeqsUpTo(LoadRows, MaxLoadRows),
                open_ok : BOOLEAN, step_err : 0..MaxLoadRows,
                done : {FALSE}, status : {"none"}, cookies : {<<>>}]
    /\ ld.step_err <= Len(ld.rows)
    /\ coll = NoColl /\ pair = NoPair /\ short = NoShort /\ ViewIdle
    /\ WlIdle /\ run = NoRun
    /\ cookie_dbs = <<>> /\ files = <<>> /\ last = NoCall
    /\ build = "debug"
    /\ TuiIdle /\ EpochIdle /\ ListIdle

\* cookie_db.load_cookies()
LoadCookies ==
    /\ ~ld.done
    /\ LET r == load_cookies_reads(ld.typing, ld.rows, ld.open_ok,
                                   ld.step_err)
       IN  ld' = [ld EXCEPT !.done = TRUE, !.status = r.status,
                            !.cookies = r.cookies]
    /\ UNCHANGED <<storeVars, tuiVars, build, epochVars, listVars, wl, run,
                   coll, pair, short, viewVars>>

LoadNext == LoadCookies

SpecLoad == LoadInit /\ [][LoadNext]_vars

\* C23: a load that returns success has one record for every row of the
\* table, in order, with the row's host and name; a Firefox record has an
\* empty encrypted_value and a Chrome record the row's bytes or nothing
C23_LoadAllOrNothing ==
    (ld.done /\ ld.status = "ok")
        => /\ Len(ld.cookies) = Len(ld.rows)
           /\ \A i \in 1..Len(ld.cookies) :
                 /\ ld.cookies[i].host = ld.rows[i].Host
                 /\ ld.cookies[i].name = ld.rows[i].Name
                 /\ ld.cookies[i].encrypted_value \in {<<>>, ld.rows[i].Enc}
                 /\ ld.typing = "Firefox"
                       => ld.cookies[i].encrypted_value = <<>>

----------------------------------------------------------------------------
(* Stores compared: impl PartialEq, Hash, Ord for CookieDB *)

\* Path::components: the root, then the names between the separators
RECURSIVE names(_)
names(p) ==
    IF p = <<>> THEN <<>>
    ELSE LET seps == { i \in 1..Len(p) : p[i] = "/" }
             k == IF seps = {} THEN Len(p) + 1
                  ELSE CHOOSE i \in seps : \A j \in seps : i <= j
             name == SubSeq(p, 1, k - 1)
         IN  (IF name = <<>> THEN <<>> ELSE <<name>>)
                 \o names(SubSeq(p, k + 1, Len(p)))

RootDir == <<"/">>

has_root(p) == p # <<>> /\ Head(p) = "/"

components(p) == (IF has_root(p) THEN <<RootDir>> ELSE <<>>) \o names(p)

\* Component: RootDir comes before every Normal component, and Normal
\* components compare as byte strings
component_less(a, b) ==
    IF a = RootDir THEN b # RootDir
    ELSE IF b = RootDir THEN FALSE
    ELSE StrLess(a, b)

\* Path::cmp: the lexicographic order of the component sequences
path_less(p, q) ==
    LET s == components(p)
        t == components(q)
    IN  \E k \in 1..Len(t) :
            /\ k <= Len(s) + 1
            /\ \A j \in 1..(k - 1) : s[j] = t[j]
            /\ k = Len(s) + 1 \/ component_less(s[k], t[k])

\* impl PartialEq for CookieDB
eq(a, b) == components(a.path) = components(b.path) /\ a.typing = b.typing

\* impl Ord for CookieDB
cmp(a, b) ==
    IF path_less(a.path, b.path) THEN "Less"
    ELSE IF path_less(b.path, a.path) THEN "Greater"
    ELSE "Equal"

\* impl Hash for CookieDB: what is fed to the hasher
hash(a) == components(a.path)

\* the variants of DbType
DbTypesAll == {"Chrome", "Firefox", "Unknown"}

\* paths of the stores that are compared: absolute and relative ones
CmpPaths == {<<"/", "h", "/", "a", "/", "c">>,
             <<"/", "h", "/", "a", ".", "b", "/", "c">>,
             <<"/", "h", "/", "b", "/", "c">>,
             <<"c">>}

CmpInit ==
    /\ pair \in [a : [path : CmpPaths, typing : DbTypesAll,
                       cookies : {<<>>}],
                  b : [path : CmpPaths, typing : DbTypesAll,
                       cookies : {<<>>}],
                  done : {FALSE}, eq : {FALSE}, cmp : {"none"},
                  hash_eq : {FALSE}]
    /\ ld = NoLoad /\ coll = NoColl /\ short = NoShort /\ ViewIdle
    /\ WlIdle /\ run = NoRun
    /\ cookie_dbs = <<>> /\ files = <<>> /\ last = NoCall
    /\ build = "debug"
    /\ TuiIdle /\ EpochIdle /\ ListIdle

\* a == b, a.cmp(&b) and the two hashes
Compare ==
    /\ ~pair.done
    /\ pair' = [pair EXCEPT !.done = TRUE,
                            !.eq = eq(pair.a, pair.b),
                            !.cmp = cmp(pair.a, pair.b),
                            !.hash_eq = (hash(pair.a) = hash(pair.b))]
    /\ UNCHANGED <<storeVars, tuiVars, build, epochVars, listVars, wl, run,
                   ld, coll, short, viewVars>>

CmpNext == Compare

SpecCmp == CmpInit /\ [][CmpNext]_vars

----------------------------------------------------------------------------
(* The store collection main builds: cookie_db_type, discovery, --file, sort *)

TableStates == {"missing", "empty", "rows"}

\* A file as cookie_db_type meets it: whether File::open succeeds, whether
\* its first 15 bytes are there and are the SQLite magic, whether
\* Connection::open succeeds and what each of the two tables holds
FileDescs == [readable : BOOLEAN, header : {"short", "wrong", "sqlite"},
              opens : BOOLEAN, moz_cookies : TableStates,
              cookies : TableStates]

\* SELECT 1 FROM table LIMIT 1 returns a row
is_db_with_table(f, table_name) == f[table_name] = "rows"

\* A probe that asks for the cookies table first
cookie_db_type_ChromeFirst(f) == IF ~f.readable \/ f.header = "short" THEN "Err" ELSE IF f.header # "sqlite" THEN "Unknown" ELSE IF f.opens /\ is_db_with_table(f, "cookies") THEN "Chrome" ELSE IF f.opens /\ is_db_with_table(f, "moz_cookies") THEN "Firefox" ELSE "Unknown"

\* cookie_db_type: "Err" when open or read_exact returns an error
cookie_db_type(f) ==
    IF ~f.readable \/ f.header = "short" THEN "Err"
    ELSE IF f.header # "sqlite" THEN "Unknown"
    ELSE IF f.opens /\ is_db_with_table(f, "moz_cookies") THEN "Firefox"
    ELSE IF f.opens /\ is_db_with_table(f, "cookies") THEN "Chrome"
    ELSE "Unknown"

\* The directories searched below the home directory, in the order of the
\* list: one lies inside another and one is listed twice
SEARCH_DIRS == <<<<"m">>, <<"c">>, <<"m", "/", "p">>, <<"c">>>>

\* the file names of cookie databases
DB_NAMES == {<<"c">>}

\* The files below the home directory: a database in the nested directory,
\* one in the directory listed twice and a file of another name beside it
CollPath1 == <<"/", "h", "/", "m", "/", "p", "/", "c">>
CollPath2 == <<"/", "h", "/", "c", "/", "c">>
CollPath3 == <<"/", "h", "/", "c", "/", "x">>
CollFiles == <<CollPath1, CollPath2, CollPath3>>

FirefoxDb == [readable |-> TRUE, header |-> "sqlite", opens |-> TRUE,
              moz_cookies |-> "rows", cookies |-> "missing"]
ChromeDb == [readable |-> TRUE, header |-> "sqlite", opens |-> TRUE,
             moz_cookies |-> "missing", cookies |-> "rows"]
EmptyDb == [readable |-> TRUE, header |-> "sqlite", opens |-> TRUE,
            moz_cookies |-> "missing", cookies |-> "empty"]

file_name(p) == LET c == names(p) IN c[Len(c)]

\* WalkDir::new(search_path): the files below the directory
WalkDir(search_path) ==
    SelectSeq(CollFiles,
              LAMBDA p : /\ Len(p) > Len(search_path)
                         /\ SubSeq(p, 1, Len(search_path) + 1)
                               = search_path \o <<"/">>)

\* the entries the loops of cookie_dbs_from_profiles visit, in order
RECURSIVE walk_entries(_)
walk_entries(dirs) ==
    IF dirs = <<>> THEN <<>>
    ELSE WalkDir(Home \o <<"/">> \o Head(dirs)) \o walk_entries(Tail(dirs))

\* An insert that keeps an element the set already has
insert_NoDedup(set, db) == Append(set, db)

\* HashSet::insert: the set is kept as its elements in the order they came
insert(set, db) ==
    IF \E i \in 1..Len(set) : hash(set[i]) = hash(db) /\ eq(set[i], db)
    THEN set ELSE Append(set, db)

\* Vec::sort (stable) by Ord::cmp
RECURSIVE sort(_)
sort(v) ==
    IF v = <<>> THEN <<>>
    ELSE LET r == sort(SubSeq(v, 1, Len(v) - 1))
             x == v[Len(v)]
             n == Cardinality({ i \in 1..Len(r) : cmp(r[i], x) # "Greater" })
         IN  SubSeq(r, 1, n) \o <<x>> \o SubSeq(r, n + 1, Len(r))

CollInit ==
    /\ \E d1 \in FileDescs, d2 \in {FirefoxDb, ChromeDb, EmptyDb},
          file \in {<<>>, CollPath1, CollPath2, CollPath3} :
          coll = [pc |-> "build",
                  desc |-> [p \in {CollPath1, CollPath2, CollPath3} |->
                              IF p = CollPath1 THEN d1
                              ELSE IF p = CollPath2 THEN d2 ELSE ChromeDb],
                  file |-> file, i |-> 0, set |-> <<>>, out |-> <<>>,
                  probed |-> {}, exit |-> None]
    /\ ld = NoLoad /\ pair = NoPair /\ short = NoShort /\ ViewIdle
    /\ WlIdle /\ run = NoRun
    /\ cookie_dbs = <<>> /\ files = <<>> /\ last = NoCall
    /\ build = "debug"
    /\ TuiIdle /\ EpochIdle /\ ListIdle

CollFrame ==
    UNCHANGED <<storeVars, tuiVars, build, epochVars, listVars, wl, run, ld,
                pair, short, viewVars>>

\* main with --file: the type is unwrapped with expect() and the store is
\* inserted with it
CollectFile ==
    /\ coll.pc = "build" /\ coll.file # <<>>
    /\ LET r == cookie_db_type(coll.desc[coll.file])
       IN  coll' = IF r = "Err"
                   THEN [coll EXCEPT
                           !.pc = "exited", !.exit = PANIC_EXIT,
                           !.probed = @ \cup {[path |-> coll.file,
                                               result |-> r]}]
                   ELSE [coll EXCEPT
                           !.pc = "sort",
                           !.probed = @ \cup {[path |-> coll.file,
                                               result |-> r]},
                           !.set = insert(@, [path |-> coll.file,
                                              typing |-> r,
                                              cookies |-> <<>>])]
    /\ CollFrame

\* cookie_dbs_from_profiles: one entry of the walk
CollectEntry ==
    /\ coll.pc = "build" /\ coll.file = <<>>
    /\ coll.i < Len(walk_entries(SEARCH_DIRS))
    /\ LET path == walk_entries(SEARCH_DIRS)[coll.i + 1]
           r == cookie_db_type(coll.desc[path])
           db_type == IF r = "Err" THEN "Unknown" ELSE r
       IN  coll' = IF file_name(path) \notin DB_NAMES
                   THEN [coll EXCEPT !.i = @ + 1]
                   ELSE [coll EXCEPT
                           !.i = @ + 1,
                           !.probed = @ \cup {[path |-> path, result |-> r]},
                           !.set = IF db_type # "Unknown"
                                   THEN insert(@, [path |-> path,
                                                   typing |-> db_type,
                                                   cookies |-> <<>>])
                                   ELSE @]
    /\ CollFrame

\* cookie_dbs_from_profiles returns
CollectWalked ==
    /\ coll.pc = "build" /\ coll.file = <<>>
    /\ coll.i = Len(walk_entries(SEARCH_DIRS))
    /\ coll' = [coll EXCEPT !.pc = "sort"]
    /\ CollFrame

\* Vec::from_iter(cookie_dbs), in whatever order the set iterates, and
\* cookie_dbs.sort()
CollectSort ==
    /\ coll.pc = "sort"
    /\ \E order \in Permutations(1..Len(coll.set)) :
          coll' = [coll EXCEPT
                     !.pc = "done",
                     !.out = sort([i \in 1..Len(coll.set) |->
                                      coll.set[order[i]]])]
    /\ CollFrame

CollNext == CollectFile \/ CollectEntry \/ CollectWalked \/ CollectSort

SpecCollect == CollInit /\ [][CollNext]_vars

\* C24: the collection main has built and sorted is in strictly ascending
\* order of store path, so no two of its stores have the same path
C24_CollectionStrictlyAscending ==
    coll.pc = "done"
        => \A i, j \in 1..Len(coll.out) :
              i < j => /\ cmp(coll.out[i], coll.out[j]) = "Less"
                       /\ coll.out[i].path # coll.out[j].path

\* C24 witness: discovery met each database twice and built a collection
\* of two stores
C24_Witness ==
    /\ coll.pc = "done" /\ coll.file = <<>>
    /\ Len(coll.out) = 2
    /\ \A k \in 1..2 :
          Len(SelectSeq(walk_entries(SEARCH_DIRS),
                        LAMBDA p : p = coll.out[k].path)) = 2

\* C26: no store of the collection, while it is built or after it is
\* sorted, has the variant Unknown
C26_NoUnknownStore ==
    /\ \A i \in 1..Len(coll.set) : coll.set[i].typing # "Unknown"
    /\ \A i \in 1..Len(coll.out) : coll.out[i].typing # "Unknown"

\* the variant the words of C27 give a file
Classified(f) ==
    IF f.header = "sqlite" /\ f.moz_cookies = "rows" THEN "Firefox"
    ELSE IF f.header = "sqlite" /\ f.cookies = "rows" THEN "Chrome"
    ELSE "Unknown"

----------------------------------------------------------------------------
(* path_short on any store path *)

\* characters in a store path
MaxPath == 6

PathChars == {"/", "h", "c"}

\* Paths to a file as WalkDir and PathBuf give them: not empty, no empty
\* name between two separators, no separator at the end
ShortPaths ==
    { p \in SeqsUpTo(PathChars, MaxPath) :
        /\ p # <<>>
        /\ p[Len(p)] # "/"
        /\ \A i \in 1..(Len(p) - 1) : ~(p[i] = "/" /\ p[i + 1] = "/") }

ShortInit ==
    /\ short \in [path : ShortPaths, done : {FALSE}, out : {<<>>}]
    /\ ld = NoLoad /\ coll = NoColl /\ pair = NoPair /\ ViewIdle
    /\ WlIdle /\ run = NoRun
    /\ cookie_dbs = <<>> /\ files = <<>> /\ last = NoCall
    /\ build = "debug"
    /\ TuiIdle /\ EpochIdle /\ ListIdle

\* cookie_db.path_short()
PathShort ==
    /\ ~short.done
    /\ short' = [short EXCEPT !.done = TRUE, !.out = path_short(short.path)]
    /\ UNCHANGED <<storeVars, tuiVars, build, epochVars, listVars, wl, run,
                   ld, coll, pair, viewVars>>

ShortNext == PathShort

SpecShort == ShortInit /\ [][ShortNext]_vars

\* C28: path_short gives a relative path back unchanged; for an absolute
\* path the result holds the home directory nowhere, and putting the home
\* directory back for each "~" gives the parent directory of the path
C28_PathShort ==
    short.done
        => IF Head(short.path) # "/"
           THEN short.out = short.path
           ELSE /\ ~Contains(short.out, Home)
                /\ Replace(short.out, <<"~">>, Home) = Parent(short.path)

\* C28 witness: the path of a file two levels below the home directory
\* was shortened to "~" and the name of its directory
C28_Witness ==
    /\ short.done
    /\ short.path = Home \o <<"/", "c", "/", "c">>
    /\ short.out = <<"~", "/", "c">>

----------------------------------------------------------------------------
(* Properties of Left / h and of D on the levels *)

\* C31: Left / h at the Domains level unsets the domain cursor and makes
\* Profiles the active level; at the Cookies level it unsets the cookie
\* cursor, makes Domains the active level and leaves the domain cursor; at
\* the Profiles level nothing changes.  The profile cursor and the records
\* and file of every store stay as they are.
C31_LeftClearsLevel ==
    [][(pc = "running" /\ ~search_open /\ key' = "h")
          => /\ profiles'.status = profiles.status
             /\ cookie_dbs' = cookie_dbs /\ files' = files
             /\ CASE selection = "Domains" ->
                       /\ current_domains'.status = None
                       /\ selection' = "Profiles"
                  [] selection = "Cookies" ->
                       /\ current_cookies'.status = None
                       /\ selection' = "Domains"
                       /\ current_domains'.status = current_domains.status
                  [] selection = "Profiles" ->
                       /\ selection' = selection
                       /\ profiles' = profiles
                       /\ current_domains' = current_domains
                       /\ current_cookies' = current_cookies
                       /\ search_matches' = search_matches
                       /\ selected_match' = selected_match
                       /\ search_field' = search_field
                       /\ search_open' = search_open]_vars

\* C31 witness: Left was pressed at the Cookies level: Domains is active
\* with its cursor set
C31_Witness ==
    /\ key = "h" /\ pc = "running"
    /\ selection = "Domains"
    /\ current_domains.status # None
    /\ current_cookies.status = None

\* C34: D at the Profiles level changes no store, no file, not the level
\* and no cursor; at any level D leaves the profile cursor and every store
\* other than the one at the profile cursor as they are
C34_DeleteStaysInProfile ==
    [][(pc = "running" /\ ~search_open /\ key' = "D")
          => /\ profiles'.status = profiles.status
             /\ \A i \in 1..Len(cookie_dbs) :
                   i # profiles.status + 1
                     => /\ cookie_dbs'[i] = cookie_dbs[i]
                        /\ files'[cookie_dbs[i].path]
                              = files[cookie_dbs[i].path]
             /\ selection = "Profiles"
                   => /\ cookie_dbs' = cookie_dbs /\ files' = files
                      /\ selection' = selection
                      /\ current_domains'.status = current_domains.status
                      /\ current_cookies'.status = current_cookies.status]_vars

\* C34 witness: D was pressed at the Profiles level with a profile under
\* the cursor
C34_Witness ==
    /\ key = "D" /\ pc = "running"
    /\ selection = "Profiles" /\ profiles.status # None
    /\ last = NoCall

\* C35: the levels deeper than the active one have no cursor
C35_DeeperLevelsUnset ==
    /\ selection = "Profiles"
          => current_domains.status = None /\ current_cookies.status = None
    /\ selection = "Domains" => current_cookies.status = None

\* C35 witness: after a D at the Domains level that left a domain, the
\* domain cursor is set and the cookie cursor is not
C35_Witness ==
    /\ DeletedByKey /\ last.name = EmptyStr
    /\ selection = "Domains" /\ current_domains.status # None
    /\ current_cookies.status = None

\* C37: in a running session the active level and the levels above it
\* have a cursor
C37_ActiveLevelsSet ==
    pc = "running"
        => /\ selection = "Domains"
                 => profiles.status # None /\ current_domains.status # None
           /\ selection = "Cookies"
                 => /\ profiles.status # None
                    /\ current_domains.status # None
                    /\ current_cookies.status # None

\* C39: a D at the Cookies level whose write succeeds removes one record
\* from the store and its file, and the store's cookies for the selected
\* domain become one fewer
C39_DeleteOneCookie ==
    [][(pc = "running" /\ ~search_open /\ key' = "D"
          /\ selection = "Cookies" /\ last'.op = "delete" /\ last'.ok)
          => LET db == last'.db
                 path == cookie_dbs[db].path
             IN  /\ Len(cookie_dbs'[db].cookies)
                       = Len(cookie_dbs[db].cookies) - 1
                 /\ Len(files'[path]) = Len(files[path]) - 1
                 /\ Len(cookies_for_domain(cookie_dbs'[db].cookies,
                                           last'.domain))
                       = Len(cookies_for_domain(cookie_dbs[db].cookies,
                                                last'.domain)) - 1]_vars

\* when there are matches, selected_match is an index of search_matches
\* and every match an index of the list of the active level
MatchesValid ==
    search_matches # <<>>
        => /\ selected_match >= 0
           /\ selected_match < Len(search_matches)
           /\ \A k \in 1..Len(search_matches) :
                 /\ search_matches[k] >= 0
                 /\ search_matches[k] < Len(active_list(TuiState).items)

\* C38: every step of a running session leaves the matches valid, leaves
\* no match after a change of level and after a D, and an n or N does not
\* end the session with the 'Invalid index' failure
C38_MatchesStayValid ==
    [][pc = "running"
          => /\ MatchesValid'
             /\ selection' # selection => search_matches' = <<>>
             /\ (~search_open /\ key' = "D") => search_matches' = <<>>
             /\ (~search_open /\ key' \in {"n", "N"})
                   => pc' = "running"]_vars

\* C38 witness: at the Domains level n has moved to the second of two
\* matches
C38_Witness ==
    /\ key = "n" /\ pc = "running" /\ selection = "Domains"
    /\ Len(search_matches) = 2 /\ selected_match = 1
    /\ current_domains.status = search_matches[2]

----------------------------------------------------------------------------
(* Deleting in lists of three: the session of the search, whose first      *)
(* store has three domains and three cookies under the first of them,      *)
(* with the keys that move and delete.                                      *)

DeleteNext == KeyLeft \/ KeyDown \/ KeyUp \/ KeyRight \/ KeyDelete

SpecDelete == SearchInit /\ [][DeleteNext]_vars

\* C32: after a D at the Domains or Cookies level whose write succeeded
\* and that leaves the list of the level non-empty, the cursor of the
\* level is one less if it was on the last index and is the same index
\* otherwise
C32_CursorAfterDelete ==
    [][(pc = "running" /\ ~search_open /\ key' = "D"
          /\ last'.op = "delete" /\ last'.ok)
          => /\ (selection = "Domains" /\ Len(current_domains'.items) > 0)
                   => current_domains'.status =
                        IF current_domains.status
                              = Len(current_domains.items) - 1
                        THEN current_domains.status - 1
                        ELSE current_domains.status
             /\ (selection = "Cookies" /\ Len(current_cookies'.items) > 0)
                   => current_cookies'.status =
                        IF current_cookies.status
                              = Len(current_cookies.items) - 1
                        THEN current_cookies.status - 1
                        ELSE current_cookies.status]_vars

----------------------------------------------------------------------------
(* Typing while the search is open: the session of the search with the     *)
(* characters that are commands in normal mode.                            *)

TypingChars == {"q", "D", "h", "j", "k", "l", "n", "N"}

TypingNext ==
    \/ KeyRight \/ KeyDown \/ KeySlash
    \/ SearchEnter \/ (\E c \in TypingChars : SearchChar(c))
    \/ SearchBackspace \/ SearchEsc \/ SearchOther

SpecTyping == SearchInit /\ [][TypingNext]_vars

\* the cursors of the three levels
Cursors ==
    <<profiles.status, current_domains.status, current_cookies.status>>

\* C33: while the search is open a character key appends the character
\* to the query and Backspace removes its last character; no key ends the
\* session, changes a store or a file, or changes the level; no key but
\* Enter moves a cursor, and Enter moves at most the cursor of the active
\* level, to the first match
C33_SearchModeOnlyEdits ==
    [][(pc = "running" /\ search_open)
          => /\ pc' = "running"
             /\ cookie_dbs' = cookie_dbs /\ files' = files
             /\ selection' = selection
             /\ key' \in TypingChars
                   => search_open' /\ search_field' = Append(search_field, key')
             /\ key' = "Backspace"
                   => /\ search_open'
                      /\ search_field' =
                            IF search_field = <<>> THEN <<>>
                            ELSE SubSeq(search_field, 1, Len(search_field) - 1)
             /\ key' # "Enter" => Cursors' = Cursors
             /\ key' = "Enter"
                   => /\ selection # "Profiles"
                            => profiles'.status = profiles.status
                      /\ selection # "Domains"
                            => current_domains'.status = current_domains.status
                      /\ selection # "Cookies"
                            => current_cookies'.status = current_cookies.status
                      /\ \/ ActiveStatus' = ActiveStatus
                         \/ /\ search_matches' # <<>>
                            /\ ActiveStatus' = search_matches'[1]]_vars

\* C33 witness: D was typed into the open search at the Cookies level
C33_Witness ==
    /\ key = "D" /\ search_open /\ search_field = <<"D">>
    /\ selection = "Cookies" /\ current_cookies.status # None
    /\ pc = "running" /\ last = NoCall

----------------------------------------------------------------------------
(* Cookie::fields_as_str: the SameSite line *)

\* the values the samesite column holds: Chrome writes -1 for a cookie
\* that names no SameSite, and 3 stands for any other number
SameSiteCodes == {-1, 0, 1, 2, 3}

ALL_FIELDS == <<"All">>

\* the --fields option split at its commas
FieldLists == {ALL_FIELDS, <<"SameSite">>, <<"Name">>, <<"Name", "SameSite">>}

\* fields.split(",").any(|s| s == f || fields == ALL_FIELDS)
field_listed(fields, f) ==
    fields = ALL_FIELDS \/ \E i \in 1..Len(fields) : fields[i] = f

\* the match on self.samesite: "panic" for its last arm
samesite_str(code) ==
    CASE code = 2 -> "Strict"
      [] code = 1 -> "Lax"
      [] code = 0 -> "None"
      [] OTHER -> "panic"

\* field_fmt: the name, plain or in bold, when use_name is set, then the
\* value
field_fmt(color, use_name, name, value) ==
    [name |-> IF use_name THEN name ELSE "", bold |-> use_name /\ color,
     value |-> value]

\* fields_as_str, as far as the SameSite field goes: its line, no line
\* when the field is not listed, a panic for a code that no arm matches
fields_as_str(samesite, fields, use_name, color) ==
    IF ~field_listed(fields, "SameSite")
    THEN [status |-> "ok", out |-> <<>>]
    ELSE IF samesite_str(samesite) = "panic"
    THEN [status |-> "panic", out |-> <<>>]
    ELSE [status |-> "ok",
          out |-> <<field_fmt(color, use_name, "SameSite",
                              samesite_str(samesite))>>]

FormatInit ==
    /\ fmt \in [samesite : SameSiteCodes, fields : FieldLists,
                 use_name : BOOLEAN, color : BOOLEAN, done : {FALSE},
                 status : {"none"}, out : {<<>>}]
    /\ nav = NoNav
    /\ ld = NoLoad /\ coll = NoColl /\ pair = NoPair /\ short = NoShort
    /\ WlIdle /\ run = NoRun
    /\ cookie_dbs = <<>> /\ files = <<>> /\ last = NoCall
    /\ build = "debug"
    /\ TuiIdle /\ EpochIdle /\ ListIdle

\* cookie.fields_as_str(fields, use_name, color)
FieldsAsStr ==
    /\ ~fmt.done
    /\ LET r == fields_as_str(fmt.samesite, fmt.fields, fmt.use_name,
                              fmt.color)
       IN  fmt' = [fmt EXCEPT !.done = TRUE, !.status = r.status,
                              !.out = r.out]
    /\ UNCHANGED <<storeVars, tuiVars, build, epochVars, listVars, wl, run,
                   ld, coll, pair, short, nav>>

FormatNext == FieldsAsStr

SpecFormat == FormatInit /\ [][FormatNext]_vars

\* C36: when the SameSite field of a cookie is formatted, the codes 0, 1
\* and 2 are shown as None, Lax and Strict, and the code -1 as None
C36_SameSiteShown ==
    (fmt.done /\ field_listed(fmt.fields, "SameSite")
       /\ fmt.samesite \in {-1, 0, 1, 2})
        => /\ fmt.status = "ok"
           /\ Len(fmt.out) = 1
           /\ fmt.out[1].value = CASE fmt.samesite = 2 -> "Strict"
                                   [] fmt.samesite = 1 -> "Lax"
                                   [] OTHER -> "None"

----------------------------------------------------------------------------
(* The navigation state built from a collection: state.rs.  The domain and *)
(* cookie lists are kept in two hash maps, the first keyed by the short    *)
(* path of a store, the second by the short path followed by a host.  A    *)
(* map is a function from its keys to StatefulLists.                       *)

\* cookies in a store of a collection that is navigated
MaxNavRows == 2

NavCookies == [host : {Str_a, Str_b}, name : {Str_x}, value : {Str_x, Str_y}]

\* Store paths: two files of one directory and one of another
NavPaths == {<<"/", "h", "/", "a", "/", "c">>,
             <<"/", "h", "/", "a", "/", "s">>,
             <<"/", "h", "/", "b", "/", "c">>}

\* Collections as main hands them over: one or two stores in ascending
\* order of their paths, no path twice
NavCollections ==
    { d \in SeqsUpTo([path : NavPaths,
                      cookies : SeqsUpTo(NavCookies, MaxNavRows)], 2) :
        /\ d # <<>>
        /\ Len(d) = 2 => path_less(d[1].path, d[2].path) }

\* StatefulList::with_items
with_items(items) == [status |-> None, items |-> items]

\* HashMap::insert: a value under an existing key is replaced
map_insert(m, k, v) ==
    [x \in (DOMAIN m) \cup {k} |-> IF x = k THEN v ELSE m[x]]

\* The inner loop of from_cookie_dbs over hst_names, from index j on
RECURSIVE insert_hosts(_, _, _, _)
insert_hosts(m, cdb, hst_names, j) ==
    IF j > Len(hst_names) THEN m
    ELSE insert_hosts(
            map_insert(m, path_short(cdb.path) \o hst_names[j],
                       with_items(cookies_for_domain(cdb.cookies,
                                                     hst_names[j]))),
            cdb, hst_names, j + 1)

\* The loop of from_cookie_dbs over the stores, from index i on
RECURSIVE insert_stores(_, _, _)
insert_stores(maps, dbs, i) ==
    IF i > Len(dbs) THEN maps
    ELSE LET cdb == dbs[i]
             hst_names == domains(cdb.cookies)
         IN  insert_stores(
                [domains |-> map_insert(maps.domains, path_short(cdb.path),
                                        with_items(hst_names)),
                 cookies |-> insert_hosts(maps.cookies, cdb, hst_names, 1)],
                dbs, i + 1)

\* State::from_cookie_dbs
from_cookie_dbs(dbs) ==
    LET maps == insert_stores([domains |-> <<>>, cookies |-> <<>>], dbs, 1)
    IN  [pc |-> "built",
         dbs |-> dbs,
         selected_split |-> 0,
         profiles |-> with_items([i \in 1..Len(dbs) |->
                                      path_short(dbs[i].path)]),
         domains |-> maps.domains,
         cookies |-> maps.cookies]

\* Option::None of HashMap::get_mut and of the two lookups below
NoList == [status |-> None, items |-> <<>>, some |-> FALSE]

SomeList(l) == [status |-> l.status, items |-> l.items, some |-> TRUE]

\* State::_selected_profile: the label under the profile cursor
selected_profile(st) == st.profiles.items[st.profiles.status + 1]

\* State::domains_for_profile
domains_for_profile(st) ==
    IF st.profiles.status # None
    THEN IF selected_profile(st) \in DOMAIN st.domains
         THEN SomeList(st.domains[selected_profile(st)])
         ELSE NoList
    ELSE NoList

\* the key cookies_for_domain looks up
cookies_key(st) ==
    LET doms == domains_for_profile(st)
    IN  selected_profile(st) \o doms.items[doms.status + 1]

\* State::cookies_for_domain
state_cookies_for_domain(st) ==
    IF st.profiles.status # None
          /\ domains_for_profile(st).some
          /\ domains_for_profile(st).status # None
    THEN IF cookies_key(st) \in DOMAIN st.cookies
         THEN SomeList(st.cookies[cookies_key(st)])
         ELSE NoList
    ELSE NoList

NavInit ==
    /\ nav \in [pc : {"start"}, dbs : NavCollections]
    /\ fmt = NoFmt
    /\ ld = NoLoad /\ coll = NoColl /\ pair = NoPair /\ short = NoShort
    /\ WlIdle /\ run = NoRun
    /\ cookie_dbs = <<>> /\ files = <<>> /\ last = NoCall
    /\ build = "debug"
    /\ TuiIdle /\ EpochIdle /\ ListIdle

NavFrame ==
    UNCHANGED <<storeVars, tuiVars, build, epochVars, listVars, wl, run,
                ld, coll, pair, short, fmt>>

\* State::from_cookie_dbs(&cookie_dbs)
NavBuild ==
    /\ nav.pc = "start"
    /\ nav' = from_cookie_dbs(nav.dbs)
    /\ NavFrame

\* state.profiles.next()
NavProfilesNext ==
    /\ nav.pc = "built"
    /\ nav' = [nav EXCEPT !.profiles = next(@)]
    /\ NavFrame

\* state.domains_for_profile() and next() on the list it refers to, which
\* holds a domain
NavDomainsNext ==
    /\ nav.pc = "built"
    /\ domains_for_profile(nav).some
    /\ domains_for_profile(nav).items # <<>>
    /\ nav' = [nav EXCEPT !.domains[selected_profile(nav)] = next(@)]
    /\ NavFrame

NavNext == NavBuild \/ NavProfilesNext \/ NavDomainsNext

SpecNav == NavInit /\ [][NavNext]_vars

\* C40: with profile i selected, domains_for_profile gives the sorted,
\* deduplicated hosts of store i and, with one of these domains selected,
\* cookies_for_domain gives the cookies store i holds for that host
C40_ListsOfSelectedProfile ==
    (nav.pc = "built" /\ nav.profiles.status # None)
        => LET cdb == nav.dbs[nav.profiles.status + 1]
               d == domains_for_profile(nav)
           IN  /\ d.some
               /\ d.items = domains(cdb.cookies)
               /\ d.status # None
                    => /\ state_cookies_for_domain(nav).some
                       /\ state_cookies_for_domain(nav).items
                            = cookies_for_domain(cdb.cookies,
                                                 d.items[d.status + 1])

====
